---------------------------- MODULE Spec2Model ----------------------------
(***************************************************************************)
(* amigo: a Slack bot coordinating a capture-the-flag event.               *)
(*                                                                         *)
(* The model follows the newest revision of the bot (src/unnamed/part_001, *)
(* the revision with doTopScores sorting a ScoreList).  src/amigo_bot.go   *)
(* and src/unnamed/part_002 are earlier revisions of the same file.        *)
(*                                                                         *)
(* Strings are modelled as sequences of atoms: an atom is a word or the    *)
(* blank " ".  "a" + "b" is \o, strings.Fields splits at the blanks,       *)
(* strings.Join puts them back, fmt.Sprintf concatenates the pieces.       *)
(***************************************************************************)
EXTENDS Integers, Sequences, FiniteSets, TLC

(***************************************************************************)
(* Bounds of the model.                                                    *)
(***************************************************************************)
\* goroutines main may start in one run (one per inbound message)
MaxTasks == 2
\* failures of external calls (Slack API, MySQL) in one run
MaxFaults == 1
\* level-2 rows that an earlier run of the bot left in the logs table
MaxPrior == 9

(***************************************************************************)
(* Program constants.                                                      *)
(***************************************************************************)
\* "case count >= 10": the retry cap of level 2
RetryCap == 10
\* "case level > 2": the highest open level
LastLevel == 2
\* "where team_id < 666": teams from this id on are hidden from the scores
HiddenFrom == 666
\* a column an INSERT does not set (logs.level, logs.team_id of a 'start' row)
NULL == -1

SP == " "

(***************************************************************************)
(* config.json (Config, config.go) and the identity slackConnect returns.  *)
(***************************************************************************)
BotID == "BOT"
BotMention == "<@BOT>"
Flag1 == <<"FLAG1">>
Flag2 == <<"FLAG2">>
Flag3 == <<"FLAG3">>
PuzzleLink == <<"http://puzzle">>
PublicChannelName == "ctf"

(***************************************************************************)
(* The Slack workspace: channel ids (a direct-message channel id starts    *)
(* with D), the users' profiles and the channel directory.                 *)
(***************************************************************************)
ChanPublic == <<"C", "0">>
ChanGroup  == <<"G", "1">>
ChanNone   == <<>>
IM(n) == <<"D", n>>

SlackUsers ==
  [U1 |-> [username |-> "alice", privateChannel |-> IM("1")],
   U2 |-> [username |-> "bob",   privateChannel |-> IM("2")],
   U3 |-> [username |-> "carol", privateChannel |-> IM("3")],
   U4 |-> [username |-> "dave",  privateChannel |-> IM("4")],
   U5 |-> [username |-> "erin",  privateChannel |-> IM("5")]]

SlackGroups   == {[name |-> "staff", id |-> ChanGroup]}
SlackChannels == {[name |-> PublicChannelName, id |-> ChanPublic]}

(***************************************************************************)
(* The users table, populated by hand before the event (README.md):        *)
(* dave has no row.                                                        *)
(***************************************************************************)
UsersTable == [alice |-> 1, bob |-> 1, carol |-> 2, erin |-> 666]

NoUser == [username |-> "", privateChannel |-> ChanNone]


(***************************************************************************)
(* String helpers of the Go library, on atom sequences.                    *)
(***************************************************************************)
\* strings.HasPrefix(s, p) for a one-atom prefix p
HasPrefix(s, p) == Len(s) >= 1 /\ s[1] = p

RECURSIVE FieldsAcc(_, _, _)
FieldsAcc(text, cur, acc) ==
  IF text = <<>>
  THEN IF cur = <<>> THEN acc ELSE Append(acc, cur)
  ELSE IF Head(text) = SP
       THEN FieldsAcc(Tail(text), <<>>, IF cur = <<>> THEN acc ELSE Append(acc, cur))
       ELSE FieldsAcc(Tail(text), Append(cur, Head(text)), acc)

\* strings.Fields: the maximal blank-free pieces of text
Fields(text) == FieldsAcc(text, <<>>, <<>>)

RECURSIVE Join(_, _)
\* strings.Join(parts, sep)
Join(parts, sep) ==
  IF parts = <<>> THEN <<>>
  ELSE IF Len(parts) = 1 THEN parts[1]
  ELSE parts[1] \o <<sep>> \o Join(Tail(parts), sep)

\* the text the atoms of q spell, one after the other
RECURSIVE Spelled(_)
Spelled(q) == IF q = <<>> THEN "" ELSE Head(q) \o Spelled(Tail(q))

\* strconv.Atoi of the text the atoms of s spell: an optional sign, then one
\* decimal digit or more and nothing else (else ErrSyntax), and a value
\* that fits an int of 64 bits (else ErrRange); err is TRUE for either error
Atoi(s) ==
  LET Digit == ("0" :> 0) @@ ("1" :> 1) @@ ("2" :> 2) @@ ("3" :> 3) @@ ("4" :> 4)
               @@ ("5" :> 5) @@ ("6" :> 6) @@ ("7" :> 7) @@ ("8" :> 8) @@ ("9" :> 9)
      str    == Spelled(s)
      signed == Len(str) >= 1 /\ SubSeq(str, 1, 1) \in {"+", "-"}
      neg    == signed /\ SubSeq(str, 1, 1) = "-"
      first  == IF signed THEN 2 ELSE 1
      \* the digits without their leading zeros
      zeros  == {i \in first..Len(str) :
                   \A j \in first..i : SubSeq(str, j, j) = "0"}
      sig    == SubSeq(str, first + Cardinality(zeros), Len(str))
      \* 1<<63 - 1, and 1<<63 for a negative numeral
      limit  == IF neg THEN "9223372036854775808" ELSE "9223372036854775807"
      RECURSIVE Above(_)
      \* sig, of the length of limit, is above it from position i on
      Above(i) ==
        IF i > Len(limit) THEN FALSE
        ELSE LET a == Digit[SubSeq(sig, i, i)]
                 b == Digit[SubSeq(limit, i, i)]
             IN IF a # b THEN a > b ELSE Above(i + 1)
      RECURSIVE Value(_, _)
      \* the number the digits of sig spell from position i on, after acc
      Value(i, acc) ==
        IF i > Len(sig) THEN acc
        ELSE Value(i + 1, 10 * acc + Digit[SubSeq(sig, i, i)])
  IN IF ~(/\ first <= Len(str)
          /\ \A i \in first..Len(str) : SubSeq(str, i, i) \in DOMAIN Digit)
     THEN [err |-> TRUE, val |-> 0]
     ELSE IF Len(sig) > Len(limit) \/ (Len(sig) = Len(limit) /\ Above(1))
     THEN [err |-> TRUE, val |-> 0]
     ELSE [err |-> FALSE, val |-> IF neg THEN 0 - Value(1, 0) ELSE Value(1, 0)]

\* %d of fmt.Sprintf
Itoa(n) ==
  IF n < 0 THEN "-" ELSE <<"0","1","2","3","4","5","6","7","8","9","10","11","12">>[n + 1]

(***************************************************************************)
(* isPrivate, postError and the messages the bot posts.                    *)
(***************************************************************************)
isPrivate(channel) == HasPrefix(channel, "D")

Msg(channel, text) == [Channel |-> channel, Text |-> text]

\* the Message postError builds
ErrorMessage(channel, message, userToken) ==
  Msg(channel, IF isPrivate(channel) THEN message
               ELSE <<"<@", userToken, ">: ">> \o message)

SomethingWentWrong(err) == <<"sorry, something went wrong (", err, ")">>
DontKnowTeam   == <<"sorry, I don't know which team you are on.">>
AlreadyStarted(aUser) == <<"sorry, ", aUser, " of your team already started the ctf!">>
Shush          == <<"shush!">>
NotANumber(sLevel) == sLevel \o <<" is not a valid puzzle number">>
TooLow         == <<"you give us too much credit for starting puzzle enumeration from 0; humans designed this, not chat bots">>
TooHigh        == <<"woaaaaah nelly! puzzle 3 hasn't started yet!">>
Exhausted      == <<"you've exhausted your 10 tries! no points 4 u">>
AlreadyTried   == <<"you (or a teammate) already tried that guess">>
NotUnderstood  == <<"sorry, I didn't understand that.">>
Entered(teamName)   == <<"Team ">> \o teamName \o <<" has entered the competition!">>
LinkText            == <<"Here is a link to the puzzle: ">> \o PuzzleLink
Found(team, event)  == <<"Team ">> \o team \o <<" found ">> \o event \o <<"!">>
RanOut(team)        == <<"Team ">> \o team \o <<" ran out of tries! :(">>
Congrats(event)     == <<"Congrats, you found ">> \o event \o <<"!">>
NotRight            == <<"Sorry, that's not right.">>
TriesLeft(n)        == <<" You have ", Itoa(n), " tries left.">>
HelpText ==
  <<"start _team name_: sets your team's name and PMs you a link to a puzzle. This starts your clock.",
    "\n",
    "validate _level_ _flag_: tells you if a flag for a level is correct (message or invite me to a private channel first!).",
    "\n",
    "scores: tells you the current top scores (beta)">>

(***************************************************************************)
(* resolveChannel: the id of the group, else of the channel, named         *)
(* config.PublicChannel; "" when neither lookup finds it.                  *)
(***************************************************************************)
resolveChannel(groupsErr, channelsErr) ==
  LET gs == IF groupsErr THEN {} ELSE {g \in SlackGroups : g.name = PublicChannelName}
      cs == IF channelsErr THEN {} ELSE {c \in SlackChannels : c.name = PublicChannelName}
  IN IF gs # {} THEN (CHOOSE g \in gs : TRUE).id
     ELSE IF cs # {} THEN (CHOOSE c \in cs : TRUE).id
     ELSE ChanNone

(***************************************************************************)
(* The router of main: which handler a message starts, with which          *)
(* arguments.  "none" is a message main drops.                             *)
(***************************************************************************)
Tail2(parts, from) == SubSeq(parts, from, Len(parts))

\* mutant: help and scores taken only when nothing follows them
DispatchNoArgs(parts, k) ==
  IF Len(parts) = k /\ parts[k] = <<"help">>
  THEN [handler |-> "doHelp", a1 |-> <<>>, a2 |-> <<>>]
  ELSE IF Len(parts) >= k + 1 /\ parts[k] = <<"start">>
  THEN [handler |-> "doStart", a1 |-> Join(Tail2(parts, k + 1), SP), a2 |-> <<>>]
  ELSE IF Len(parts) >= k + 2 /\ parts[k] = <<"validate">>
  THEN [handler |-> "doValidate", a1 |-> parts[k + 1], a2 |-> Join(Tail2(parts, k + 2), SP)]
  ELSE IF Len(parts) = k /\ parts[k] = <<"scores">>
  THEN [handler |-> "doTopScores", a1 |-> <<>>, a2 |-> <<>>]
  ELSE [handler |-> "postError", a1 |-> <<>>, a2 |-> <<>>]

Dispatch(parts, k) ==
  \* k is the index of the command token: 2 after a mention, 1 without
  IF Len(parts) >= k /\ parts[k] = <<"help">>
  THEN [handler |-> "doHelp", a1 |-> <<>>, a2 |-> <<>>]
  ELSE IF Len(parts) >= k + 1 /\ parts[k] = <<"start">>
  THEN [handler |-> "doStart", a1 |-> Join(Tail2(parts, k + 1), SP), a2 |-> <<>>]
  ELSE IF Len(parts) >= k + 2 /\ parts[k] = <<"validate">>
  THEN [handler |-> "doValidate", a1 |-> parts[k + 1], a2 |-> Join(Tail2(parts, k + 2), SP)]
  ELSE IF Len(parts) >= k /\ parts[k] = <<"scores">>
  THEN [handler |-> "doTopScores", a1 |-> <<>>, a2 |-> <<>>]
  ELSE [handler |-> "postError", a1 |-> <<>>, a2 |-> <<>>]

Route(m) ==
  IF m.Type = "message" /\ m.Subtype = ""
  THEN IF HasPrefix(m.Text, BotMention)
       THEN Dispatch(Fields(m.Text), 2)
       ELSE IF HasPrefix(m.Channel, "D") /\ m.User # BotID
       THEN Dispatch(Fields(m.Text), 1)
       ELSE [handler |-> "none", a1 |-> <<>>, a2 |-> <<>>]
  ELSE [handler |-> "none", a1 |-> <<>>, a2 |-> <<>>]

(***************************************************************************)
(* The database: teams is the set of rows of table teams (id is its        *)
(* primary key), logs the rows of table logs in insertion order.           *)
(***************************************************************************)
LogRow(user, event, level, teamID) ==
  [user |-> user, event |-> event, level |-> level, team_id |-> teamID]

\* SELECT team FROM users WHERE user=?  (NULL: sql.ErrNoRows)
SelectUserTeam(username) ==
  IF username \in DOMAIN UsersTable THEN UsersTable[username] ELSE NULL

\* SELECT user FROM logs WHERE team_id=?  (the rows that match)
SelectTeamLogs(lg, team) == {i \in 1..Len(lg) : lg[i].team_id = team}

\* mutant: the insert of an earlier revision, ... ON DUPLICATE KEY UPDATE name=?
TeamsInsertUpsert(tm, team, teamName) ==
  [err |-> FALSE,
   teams |-> {r \in tm : r.id # team} \cup {[id |-> team, name |-> teamName]}]

\* INSERT INTO teams SET id=?, name=?: id is the primary key of teams, a
\* second row with the same id is refused (MySQL error 1062)
TeamsInsert(tm, team, teamName) ==
  IF \E r \in tm : r.id = team
  THEN [err |-> TRUE, teams |-> tm]
  ELSE [err |-> FALSE, teams |-> tm \cup {[id |-> team, name |-> teamName]}]

\* mutant: the row written over the last row of the table
LogsInsertOver(lg, row) ==
  IF lg = <<>> THEN <<row>> ELSE [lg EXCEPT ![Len(lg)] = row]

\* INSERT INTO logs SET ...: the new row gets the next id of the table
LogsInsert(lg, row) == Append(lg, row)

\* mutant: the team taken from table users alone, without the join
SelectTeamOfUserNoJoin(tm, username) ==
  IF username \in DOMAIN UsersTable
  THEN {[id |-> UsersTable[username], name |-> <<"?">>]}
  ELSE {}

\* SELECT teams.name,teams.id FROM teams JOIN users ON teams.id = users.team WHERE users.user=?
SelectTeamOfUser(tm, username) ==
  {r \in tm : username \in DOMAIN UsersTable /\ r.id = UsersTable[username]}

\* mutant: the count taken over the rows of every team
CountTriesAnyTeam(lg, teamID, level) ==
  Cardinality({i \in 1..Len(lg) : lg[i].level = level})

\* SELECT COUNT(*) FROM logs WHERE team_id=? AND level=?
CountTries(lg, teamID, level) ==
  Cardinality({i \in 1..Len(lg) : lg[i].team_id = teamID /\ lg[i].level = level})

\* The collation of column event, the default one of the README's create
\* table: two texts are equal under it when they differ in the case of
\* their letters only.  Collate gives the text all such texts share.
Collate(text) ==
  LET Lower == ("A" :> "a") @@ ("B" :> "b") @@ ("C" :> "c") @@ ("D" :> "d")
               @@ ("E" :> "e") @@ ("F" :> "f") @@ ("G" :> "g") @@ ("H" :> "h")
               @@ ("I" :> "i") @@ ("J" :> "j") @@ ("K" :> "k") @@ ("L" :> "l")
               @@ ("M" :> "m") @@ ("N" :> "n") @@ ("O" :> "o") @@ ("P" :> "p")
               @@ ("Q" :> "q") @@ ("R" :> "r") @@ ("S" :> "s") @@ ("T" :> "t")
               @@ ("U" :> "u") @@ ("V" :> "v") @@ ("W" :> "w") @@ ("X" :> "x")
               @@ ("Y" :> "y") @@ ("Z" :> "z")
      str == Spelled(text)
      RECURSIVE Folded(_)
      Folded(i) ==
        IF i > Len(str) THEN ""
        ELSE LET c == SubSeq(str, i, i)
             IN (IF c \in DOMAIN Lower THEN Lower[c] ELSE c) \o Folded(i + 1)
  IN Folded(1)

\* mutant: the duplicate query looks at the rows of level 1
CountDupWrongLevel(lg, teamID, level, event) ==
  Cardinality({i \in 1..Len(lg) :
     /\ lg[i].team_id = teamID /\ lg[i].level = 1
     /\ Collate(lg[i].event) = Collate(event)})

\* SELECT COUNT(*) FROM logs WHERE team_id=? AND level=? AND event=?
CountDup(lg, teamID, level, event) ==
  Cardinality({i \in 1..Len(lg) :
     /\ lg[i].team_id = teamID /\ lg[i].level = level
     /\ Collate(lg[i].event) = Collate(event)})


(***************************************************************************)
(* State.                                                                  *)
(***************************************************************************)
VARIABLES
  userCache,      \* var userCache map[string]user
  userCacheLock,  \* var userCacheLock sync.Mutex: 0 free, else the task holding it
  publicChannel,  \* var publicChannel string
  teams,          \* table teams
  logs,           \* table logs
  tasks,          \* the goroutines main started: arguments, position, locals
  faults          \* external calls that have failed so far

vars == <<userCache, userCacheLock, publicChannel, teams, logs, tasks, faults>>

TaskIds == 1..MaxTasks

\* a goroutine that main has not started yet
Idle ==
  [handler |-> "none", pc |-> "idle",
   userToken |-> "", channel |-> ChanNone, a1 |-> <<>>, a2 |-> <<>>,
   u |-> NoUser, team |-> NULL, teamName |-> <<>>, level |-> NULL,
   count |-> 0, event |-> <<>>, eventOk |-> FALSE, scores |-> <<>>,
   i |-> 0, text |-> <<>>, err |-> "",
   \* history: the messages it handed to postMessage, the message of its
   \* postError call, the rows it inserted, the length of logs when it
   \* first queried the table
   posted |-> <<>>, error |-> <<>>, insertedLogs |-> 0, insertedTeam |-> FALSE,
   snapshot |-> 0]

FirstPc(handler) ==
  CASE handler = "doHelp"      -> "help"
    [] handler = "doStart"     -> "resolve"
    [] handler = "doValidate"  -> "resolve"
    [] handler = "doTopScores" -> "sc_query"
    [] handler = "postError"   -> "unknown"

Post(rec, channel, text) == [rec EXCEPT !.posted = Append(@, Msg(channel, text))]

\* postError(ws, channel, message, userToken) followed by return
Fail(rec, message) ==
  [rec EXCEPT !.posted = Append(@, ErrorMessage(rec.channel, message, rec.userToken)),
              !.error = message, !.pc = "done"]

CanFail == faults < MaxFaults

(***************************************************************************)
(* main: one iteration of the receive loop.  A message that routes to a    *)
(* handler starts a goroutine; any other message is dropped.               *)
(***************************************************************************)
Receive(m) ==
  LET r == Route(m)
      free == {t \in TaskIds : tasks[t].pc = "idle"}
  IN /\ free # {}
     /\ IF r.handler = "none"
        THEN UNCHANGED tasks
        ELSE LET t == CHOOSE x \in free : \A y \in free : x <= y
             IN tasks' = [tasks EXCEPT ![t] =
                  [Idle EXCEPT !.handler = r.handler, !.pc = FirstPc(r.handler),
                               !.userToken = m.User, !.channel = m.Channel,
                               !.a1 = r.a1, !.a2 = r.a2]]
     /\ UNCHANGED <<userCache, userCacheLock, publicChannel, teams, logs, faults>>

(***************************************************************************)
(* doHelp and the reply to a message the router does not understand.       *)
(***************************************************************************)
DoHelp(t) ==
  /\ tasks[t].pc = "help"
  /\ tasks' = [tasks EXCEPT ![t] =
        [Post(@, tasks[t].channel, HelpText) EXCEPT !.pc = "done"]]
  /\ UNCHANGED <<userCache, userCacheLock, publicChannel, teams, logs, faults>>

DoUnknown(t) ==
  /\ tasks[t].pc = "unknown"
  /\ tasks' = [tasks EXCEPT ![t] = Fail(@, NotUnderstood)]
  /\ UNCHANGED <<userCache, userCacheLock, publicChannel, teams, logs, faults>>

(***************************************************************************)
(* resolveUser, called first by doStart and doValidate.  The mutex is held *)
(* from Lock to the return, the two Slack calls included.                  *)
(***************************************************************************)
AfterResolve(handler) == IF handler = "doStart" THEN "st_team" ELSE "va_team"

\* mutant: the cache is read and the lookups are started without the mutex
ResolveLockNotTaken(t) ==
  /\ tasks[t].pc = "resolve"
  /\ IF tasks[t].userToken \in DOMAIN userCache
     THEN tasks' = [tasks EXCEPT ![t].u = userCache[tasks[t].userToken],
                                 ![t].pc = AfterResolve(tasks[t].handler)]
     ELSE tasks' = [tasks EXCEPT ![t].pc = "ru_info"]
  /\ UNCHANGED <<userCacheLock, userCache, publicChannel, teams, logs, faults>>

\* mutant: the cache not consulted
ResolveLockNoCache(t) ==
  /\ tasks[t].pc = "resolve"
  /\ userCacheLock = 0
  /\ tasks' = [tasks EXCEPT ![t].pc = "ru_info"]
  /\ userCacheLock' = t
  /\ UNCHANGED <<userCache, publicChannel, teams, logs, faults>>

\* userCacheLock.Lock(); u, ok := userCache[userToken]; if ok { return u, nil }
ResolveLock(t) ==
  /\ tasks[t].pc = "resolve"
  /\ userCacheLock = 0
  /\ IF tasks[t].userToken \in DOMAIN userCache
     THEN /\ tasks' = [tasks EXCEPT ![t].u = userCache[tasks[t].userToken],
                                    ![t].pc = AfterResolve(tasks[t].handler)]
          /\ UNCHANGED userCacheLock
     ELSE /\ tasks' = [tasks EXCEPT ![t].pc = "ru_info"]
          /\ userCacheLock' = t
  /\ UNCHANGED <<userCache, publicChannel, teams, logs, faults>>

\* mutant: the failed lookup returns with the mutex still held
ResolveUserInfoLockKept(t) ==
  /\ tasks[t].pc = "ru_info"
  /\ \/ /\ tasks' = [tasks EXCEPT ![t].pc = "ru_im"]
        /\ UNCHANGED <<userCacheLock, faults>>
     \/ /\ CanFail
        /\ faults' = faults + 1
        /\ UNCHANGED userCacheLock
        /\ tasks' = [tasks EXCEPT ![t].err = "GetUserInfo", ![t].pc = "ru_err"]
  /\ UNCHANGED <<userCache, publicChannel, teams, logs>>

\* api.GetUserInfo(userToken); on an error resolveUser returns it, and the
\* deferred userCacheLock.Unlock() runs
ResolveUserInfo(t) ==
  /\ tasks[t].pc = "ru_info"
  /\ \/ /\ tasks' = [tasks EXCEPT ![t].pc = "ru_im"]
        /\ UNCHANGED <<userCacheLock, faults>>
     \/ /\ CanFail
        /\ faults' = faults + 1
        /\ userCacheLock' = 0
        /\ tasks' = [tasks EXCEPT ![t].err = "GetUserInfo", ![t].pc = "ru_err"]
  /\ UNCHANGED <<userCache, publicChannel, teams, logs>>

\* api.OpenIMChannel(userToken); userCache[userToken] = newUser; the
\* deferred userCacheLock.Unlock() runs as resolveUser returns, with the
\* user or with the error
ResolveIMChannel(t) ==
  /\ tasks[t].pc = "ru_im"
  /\ userCacheLock' = 0
  /\ \/ LET newUser == SlackUsers[tasks[t].userToken]
        IN /\ userCache' = [k \in DOMAIN userCache \cup {tasks[t].userToken} |->
                               IF k = tasks[t].userToken THEN newUser ELSE userCache[k]]
           /\ tasks' = [tasks EXCEPT ![t].u = newUser,
                                     ![t].pc = AfterResolve(tasks[t].handler)]
           /\ UNCHANGED faults
     \/ /\ CanFail
        /\ faults' = faults + 1
        /\ tasks' = [tasks EXCEPT ![t].err = "OpenIMChannel", ![t].pc = "ru_err"]
        /\ UNCHANGED userCache
  /\ UNCHANGED <<publicChannel, teams, logs>>

\* u, err := resolveUser(config, userToken); if err != nil { postError(...); return }
ResolveFailed(t) ==
  /\ tasks[t].pc = "ru_err"
  /\ tasks' = [tasks EXCEPT ![t] = Fail(@, SomethingWentWrong(tasks[t].err))]
  /\ UNCHANGED <<userCache, userCacheLock, publicChannel, teams, logs, faults>>


(***************************************************************************)
(* doStart.                                                                *)
(***************************************************************************)
StartRow(username) == LogRow(username, <<"start">>, NULL, NULL)

\* SELECT team FROM users WHERE user=?
StartSelectTeam(t) ==
  /\ tasks[t].pc = "st_team"
  /\ \/ LET team == SelectUserTeam(tasks[t].u.username)
        IN /\ tasks' = [tasks EXCEPT ![t] =
                 IF team = NULL THEN Fail(@, DontKnowTeam)
                 ELSE [@ EXCEPT !.team = team, !.pc = "st_log"]]
           /\ UNCHANGED faults
     \/ /\ CanFail
        /\ faults' = faults + 1
        /\ tasks' = [tasks EXCEPT ![t] = Fail(@, SomethingWentWrong("users"))]
  /\ UNCHANGED <<userCache, userCacheLock, publicChannel, teams, logs>>

\* SELECT user FROM logs WHERE team_id=?  (QueryRow scans one of the rows)
StartSelectLog(t) ==
  /\ tasks[t].pc = "st_log"
  /\ \/ LET rows == SelectTeamLogs(logs, tasks[t].team)
        IN /\ IF rows = {}
              THEN tasks' = [tasks EXCEPT ![t].pc = "st_insTeam"]
              ELSE \E i \in rows :
                     tasks' = [tasks EXCEPT ![t] = Fail(@, AlreadyStarted(logs[i].user))]
           /\ UNCHANGED faults
     \/ /\ CanFail
        /\ faults' = faults + 1
        /\ tasks' = [tasks EXCEPT ![t] = Fail(@, SomethingWentWrong("logs"))]
  /\ UNCHANGED <<userCache, userCacheLock, publicChannel, teams, logs>>

\* INSERT INTO teams SET id=?, name=?
StartInsertTeam(t) ==
  /\ tasks[t].pc = "st_insTeam"
  /\ \/ LET res == TeamsInsert(teams, tasks[t].team, tasks[t].a1)
        IN /\ teams' = res.teams
           /\ tasks' = [tasks EXCEPT ![t] =
                 IF res.err THEN Fail(@, SomethingWentWrong("Duplicate entry"))
                 ELSE [@ EXCEPT !.insertedTeam = TRUE, !.pc = "st_insLog"]]
           /\ UNCHANGED faults
     \/ /\ CanFail
        /\ faults' = faults + 1
        /\ tasks' = [tasks EXCEPT ![t] = Fail(@, SomethingWentWrong("teams"))]
        /\ UNCHANGED teams
  /\ UNCHANGED <<userCache, userCacheLock, publicChannel, logs>>

\* INSERT INTO logs SET user=?, event='start'
StartInsertLog(t) ==
  /\ tasks[t].pc = "st_insLog"
  /\ \/ /\ logs' = LogsInsert(logs, StartRow(tasks[t].u.username))
        /\ tasks' = [tasks EXCEPT ![t].insertedLogs = @ + 1, ![t].pc = "st_post"]
        /\ UNCHANGED faults
     \/ /\ CanFail
        /\ faults' = faults + 1
        /\ tasks' = [tasks EXCEPT ![t] = Fail(@, SomethingWentWrong("logs"))]
        /\ UNCHANGED logs
  /\ UNCHANGED <<userCache, userCacheLock, publicChannel, teams>>

\* mutant: the link sent where the command came from
LinkChannelSame(channel, u) == channel

\* where doStart sends the puzzle link
LinkChannel(channel, u) == IF isPrivate(channel) THEN channel ELSE u.privateChannel

\* postMessage of 'Team <name> has entered the competition!' to publicChannel
StartAnnounce(t) ==
  /\ tasks[t].pc = "st_post"
  /\ tasks' = [tasks EXCEPT ![t] =
        [Post(@, publicChannel, Entered(tasks[t].a1)) EXCEPT !.pc = "st_link"]]
  /\ UNCHANGED <<userCache, userCacheLock, publicChannel, teams, logs, faults>>

\* postMessage of the puzzle link, the last statement of doStart
StartLink(t) ==
  /\ tasks[t].pc = "st_link"
  /\ tasks' = [tasks EXCEPT ![t] =
        [Post(@, LinkChannel(tasks[t].channel, tasks[t].u), LinkText)
         EXCEPT !.pc = "done"]]
  /\ UNCHANGED <<userCache, userCacheLock, publicChannel, teams, logs, faults>>

(***************************************************************************)
(* doValidate.                                                             *)
(***************************************************************************)
Incorrect(flag) == <<"incorrect:">> \o flag

\* mutant: one reply for a level below 1 and a level above the last
ValidateRejectOneReply(channel, pub, sLevel) ==
  LET lv == Atoi(sLevel)
  IN IF channel = pub THEN Shush
     ELSE IF lv.err THEN NotANumber(sLevel)
     ELSE IF lv.val < 1 \/ lv.val > LastLevel THEN TooHigh
     ELSE <<>>

\* mutant: the check of the channel left out
ValidateRejectNoShush(channel, pub, sLevel) ==
  LET lv == Atoi(sLevel)
  IN IF lv.err THEN NotANumber(sLevel)
     ELSE IF lv.val < 1 THEN TooLow
     ELSE IF lv.val > LastLevel THEN TooHigh
     ELSE <<>>

\* the checks between the team query and the count query: the reply that
\* rejects the call, or <<>> when it goes on
ValidateReject(channel, pub, sLevel) ==
  LET lv == Atoi(sLevel)
  IN IF channel = pub THEN Shush
     ELSE IF lv.err THEN NotANumber(sLevel)
     ELSE IF lv.val < 1 THEN TooLow
     ELSE IF lv.val > LastLevel THEN TooHigh
     ELSE <<>>

\* mutant: the cap compared with > instead of >=
CapReachedOffByOne(count) == count > RetryCap

\* case count >= 10
CapReached(count) == count >= RetryCap

\* mutant: level 1 takes the secret of level 2 as well
Level1EventAnySecret(flag) ==
  IF flag = Flag1 THEN <<"flag 1">>
  ELSE IF flag = Flag2 THEN <<"flag 2">>
  ELSE IF flag = Flag3 THEN <<"flag 3">>
  ELSE <<"incorrect:">> \o flag

\* case level == 1: the event a flag text earns
Level1Event(flag) ==
  IF flag = Flag1 THEN <<"flag 1">>
  ELSE IF flag = Flag2 THEN <<"flag 2">>
  ELSE Incorrect(flag)

\* case level == 2, after the duplicate check
Level2Event(flag) == IF flag = Flag3 THEN <<"flag 3">> ELSE Incorrect(flag)

IsFlagEvent(event) == event \in {<<"flag 1">>, <<"flag 2">>, <<"flag 3">>}

\* SELECT teams.name,teams.id FROM teams JOIN users ... and the checks on
\* the channel and on the level
ValidateSelectTeam(t) ==
  /\ tasks[t].pc = "va_team"
  /\ \/ LET rows == SelectTeamOfUser(teams, tasks[t].u.username)
            rej  == ValidateReject(tasks[t].channel, publicChannel, tasks[t].a1)
        IN /\ IF rows = {}
              THEN tasks' = [tasks EXCEPT ![t] = Fail(@, DontKnowTeam)]
              ELSE \E r \in rows :
                     tasks' = [tasks EXCEPT ![t] =
                        IF rej # <<>>
                        THEN Fail([@ EXCEPT !.team = r.id, !.teamName = r.name], rej)
                        ELSE [@ EXCEPT !.team = r.id, !.teamName = r.name,
                                       !.level = Atoi(tasks[t].a1).val,
                                       !.event = Incorrect(tasks[t].a2),
                                       !.eventOk = FALSE,
                                       !.pc = "va_count"]]
           /\ UNCHANGED faults
     \/ /\ CanFail
        /\ faults' = faults + 1
        /\ tasks' = [tasks EXCEPT ![t] = Fail(@, SomethingWentWrong("teams"))]
  /\ UNCHANGED <<userCache, userCacheLock, publicChannel, teams, logs>>

\* mutant: the error of the count query let through, as the revision before
\* this one did (src/amigo_bot.go tests err == nil there)
ValidateCountErrIgnored(t) ==
  /\ tasks[t].pc = "va_count"
  /\ \/ LET count == CountTries(logs, tasks[t].team, tasks[t].level)
            ev    == Level1Event(tasks[t].a2)
            rec   == [tasks[t] EXCEPT !.count = count, !.snapshot = Len(logs)]
        IN /\ tasks' = [tasks EXCEPT ![t] =
                 IF tasks[t].level = 1
                 THEN [rec EXCEPT !.event = ev, !.eventOk = IsFlagEvent(ev),
                                  !.pc = "va_insert"]
                 ELSE IF CapReached(count)
                 THEN Fail(rec, Exhausted)
                 ELSE [rec EXCEPT !.pc = "va_dup"]]
           /\ UNCHANGED faults
     \/ /\ CanFail
        /\ faults' = faults + 1
        /\ tasks' = [tasks EXCEPT ![t].pc = "va_insert"]
  /\ UNCHANGED <<userCache, userCacheLock, publicChannel, teams, logs>>

\* SELECT COUNT(*) FROM logs WHERE team_id=? AND level=?, then the switch
\* on the level up to its next query
ValidateCount(t) ==
  /\ tasks[t].pc = "va_count"
  /\ \/ LET count == CountTries(logs, tasks[t].team, tasks[t].level)
            ev    == Level1Event(tasks[t].a2)
            rec   == [tasks[t] EXCEPT !.count = count, !.snapshot = Len(logs)]
        IN /\ tasks' = [tasks EXCEPT ![t] =
                 IF tasks[t].level = 1
                 THEN [rec EXCEPT !.event = ev, !.eventOk = IsFlagEvent(ev),
                                  !.pc = "va_insert"]
                 ELSE IF CapReached(count)
                 THEN Fail(rec, Exhausted)
                 ELSE [rec EXCEPT !.pc = "va_dup"]]
           /\ UNCHANGED faults
     \/ /\ CanFail
        /\ faults' = faults + 1
        /\ tasks' = [tasks EXCEPT ![t] = Fail(@, SomethingWentWrong("logs"))]
  /\ UNCHANGED <<userCache, userCacheLock, publicChannel, teams, logs>>

\* SELECT COUNT(*) FROM logs WHERE team_id=? AND level=? AND event=?
ValidateDup(t) ==
  /\ tasks[t].pc = "va_dup"
  /\ \/ LET dupCount == CountDup(logs, tasks[t].team, tasks[t].level, tasks[t].event)
            ev       == Level2Event(tasks[t].a2)
        IN /\ tasks' = [tasks EXCEPT ![t] =
                 IF dupCount > 0 THEN Fail(@, AlreadyTried)
                 ELSE [@ EXCEPT !.event = ev, !.eventOk = IsFlagEvent(ev),
                                !.pc = "va_insert"]]
           /\ UNCHANGED faults
     \/ /\ CanFail
        /\ faults' = faults + 1
        /\ tasks' = [tasks EXCEPT ![t] = Fail(@, SomethingWentWrong("logs"))]
  /\ UNCHANGED <<userCache, userCacheLock, publicChannel, teams, logs>>

\* mutant: the error of the insert not looked at
ValidateInsertUnchecked(t) ==
  /\ tasks[t].pc = "va_insert"
  /\ \/ /\ logs' = LogsInsert(logs, LogRow(tasks[t].u.username, tasks[t].event,
                                           tasks[t].level, tasks[t].team))
        /\ tasks' = [tasks EXCEPT ![t].insertedLogs = @ + 1, ![t].pc = "va_post"]
        /\ UNCHANGED faults
     \/ /\ CanFail
        /\ faults' = faults + 1
        /\ tasks' = [tasks EXCEPT ![t].pc = "va_post"]
        /\ UNCHANGED logs
  /\ UNCHANGED <<userCache, userCacheLock, publicChannel, teams>>

\* INSERT INTO logs SET user=?, event=?, level=?, team_id=?
ValidateInsert(t) ==
  /\ tasks[t].pc = "va_insert"
  /\ \/ /\ logs' = LogsInsert(logs, LogRow(tasks[t].u.username, tasks[t].event,
                                           tasks[t].level, tasks[t].team))
        /\ tasks' = [tasks EXCEPT ![t].insertedLogs = @ + 1, ![t].pc = "va_post"]
        /\ UNCHANGED faults
     \/ /\ CanFail
        /\ faults' = faults + 1
        /\ tasks' = [tasks EXCEPT ![t] = Fail(@, SomethingWentWrong("logs"))]
        /\ UNCHANGED logs
  /\ UNCHANGED <<userCache, userCacheLock, publicChannel, teams>>

\* mutant: the announcement sent without m.Channel = publicChannel
ValidateMessagesUnrouted(rec, pub) ==
  LET found  == IF rec.eventOk
                THEN <<Msg(ChanNone, Found(rec.teamName, rec.event))>> ELSE <<>>
      ranOut == IF rec.level = 2 /\ rec.count + 1 = RetryCap /\ ~rec.eventOk
                THEN <<Msg(pub, RanOut(rec.teamName))>> ELSE <<>>
      reply  == IF rec.eventOk THEN Congrats(rec.event)
                ELSE IF rec.level = 2
                THEN NotRight \o TriesLeft(RetryCap - (rec.count + 1))
                ELSE NotRight
  IN found \o ranOut \o <<Msg(rec.channel, reply)>>

\* the messages that end doValidate: the public one, when there is one to
\* send, and then the reply
ValidateMessages(rec, pub) ==
  LET found  == IF rec.eventOk
                THEN <<Msg(pub, Found(rec.teamName, rec.event))>> ELSE <<>>
      ranOut == IF rec.level = 2 /\ rec.count + 1 = RetryCap /\ ~rec.eventOk
                THEN <<Msg(pub, RanOut(rec.teamName))>> ELSE <<>>
      reply  == IF rec.eventOk THEN Congrats(rec.event)
                ELSE IF rec.level = 2
                THEN NotRight \o TriesLeft(RetryCap - (rec.count + 1))
                ELSE NotRight
  IN found \o ranOut \o <<Msg(rec.channel, reply)>>

\* 'Post to public channel': postMessage of 'found' or of 'ran out of
\* tries' when its condition holds, else no call
ValidateAnnounce(t) ==
  /\ tasks[t].pc = "va_post"
  /\ LET ms == ValidateMessages(tasks[t], publicChannel)
     IN tasks' = [tasks EXCEPT ![t] =
           [@ EXCEPT !.posted = @ \o SubSeq(ms, 1, Len(ms) - 1),
                     !.pc = "va_reply"]]
  /\ UNCHANGED <<userCache, userCacheLock, publicChannel, teams, logs, faults>>

\* 'Return result': postMessage of the reply, the last statement of doValidate
ValidateReply(t) ==
  /\ tasks[t].pc = "va_reply"
  /\ LET ms == ValidateMessages(tasks[t], publicChannel)
     IN tasks' = [tasks EXCEPT ![t] =
           [@ EXCEPT !.posted = Append(@, ms[Len(ms)]), !.pc = "done"]]
  /\ UNCHANGED <<userCache, userCacheLock, publicChannel, teams, logs, faults>>


(***************************************************************************)
(* doTopScores.                                                            *)
(***************************************************************************)
\* select id, event, team_id from logs where team_id < 666
\* (a NULL team_id satisfies no comparison)
SelectScoreRows(lg) ==
  SelectSeq(lg, LAMBDA r : r.team_id # NULL /\ r.team_id < HiddenFrom)

CountedEvents ==
  {<<"start">>, <<"flag 1">>, <<"flag 2">>, <<"flag 3">>, <<"flag 4">>,
   <<"flag 5">>, <<"flag 6">>, <<"flag 7">>}

\* eventCounts[team][event] after the loop over the rows (0: no such key)
eventCounts(rows, team, event) ==
  IF event \in CountedEvents
  THEN Cardinality({i \in 1..Len(rows) : rows[i].team_id = team /\ rows[i].event = event})
  ELSE 0

\* mutant: a flag counted only when it was logged once
HasKeyOnce(rows, team, event) == eventCounts(rows, team, event) = 1

\* _, hasFlagN := eventCounts[team]["flag N"]
HasKey(rows, team, event) == eventCounts(rows, team, event) > 0

teamScores(rows, team) ==
  [teamID |-> team,
   hasFlag1 |-> HasKey(rows, team, <<"flag 1">>),
   hasFlag2 |-> HasKey(rows, team, <<"flag 2">>),
   hasFlag3 |-> HasKey(rows, team, <<"flag 3">>),
   hasFlag4 |-> HasKey(rows, team, <<"flag 4">>),
   hasFlag5 |-> HasKey(rows, team, <<"flag 5">>),
   hasFlag6 |-> HasKey(rows, team, <<"flag 6">>),
   hasFlag7 |-> HasKey(rows, team, <<"flag 7">>)]

B2N(b) == IF b THEN 1 ELSE 0

numFlags(s) ==
  B2N(s.hasFlag1) + B2N(s.hasFlag2) + B2N(s.hasFlag3) + B2N(s.hasFlag4)
  + B2N(s.hasFlag5) + B2N(s.hasFlag6) + B2N(s.hasFlag7)

\* ScoreList.Less
Less(s, i, j) == numFlags(s[i]) < numFlags(s[j])

\* mutant: sort.Sort(ScoreList(scores)), without sort.Reverse
ReverseForgotten(s, i, j) == Less(s, i, j)

\* sort.Reverse(ScoreList(scores)).Less
ReverseLess(s, i, j) == Less(s, j, i)

\* what sort.Sort leaves: no element is Less than one before it
IsSorted(s) == \A i, j \in 1..Len(s) : i < j => ~ReverseLess(s, j, i)

\* mutant: one entry for each row, not for each key of the map
OrderingsOfRows(S) == [1..Cardinality(S) -> S]

\* the orders "for team := range teams" may visit the keys of the map in
Orderings(S) ==
  {f \in [1..Cardinality(S) -> S] : \A i, j \in 1..Cardinality(S) : i # j => f[i] # f[j]}

\* the slices sort.Sort(sort.Reverse(ScoreList(scores))) may leave: sort.Sort
\* is not stable and the map is ranged over in no fixed order
SortedScores(rows) ==
  LET present == {rows[i].team_id : i \in 1..Len(rows)}
  IN {s \in {[i \in 1..Cardinality(present) |-> teamScores(rows, f[i])] :
               f \in Orderings(present)} : IsSorted(s)}

ScoresQuery(t) ==
  /\ tasks[t].pc = "sc_query"
  /\ \/ /\ \E s \in SortedScores(SelectScoreRows(logs)) :
             tasks' = [tasks EXCEPT ![t].scores = s, ![t].snapshot = Len(logs),
                                    ![t].pc = "sc_names"]
        /\ UNCHANGED faults
     \/ /\ CanFail
        /\ faults' = faults + 1
        /\ tasks' = [tasks EXCEPT ![t] = Fail(@, SomethingWentWrong("logs"))]
  /\ UNCHANGED <<userCache, userCacheLock, publicChannel, teams, logs>>

\* one turn of "for _, team := range scores": select name from teams where
\* id = %d, Scan, and the line of the team added to text
ScoresName(t) ==
  /\ tasks[t].pc = "sc_names"
  /\ tasks[t].i < Len(tasks[t].scores)
  /\ \/ LET team  == tasks[t].scores[tasks[t].i + 1]
            names == {r.name : r \in {x \in teams : x.id = team.teamID}}
        IN /\ tasks' = [tasks EXCEPT ![t] =
                 IF names = {} THEN Fail(@, SomethingWentWrong("Scan"))
                 ELSE [@ EXCEPT
                         !.text = @ \o <<"# ", Itoa(tasks[t].i), ": Team '">>
                                    \o (CHOOSE n \in names : TRUE)
                                    \o <<"' found ", Itoa(numFlags(team)), " flags\n">>,
                         !.i = @ + 1]]
           /\ UNCHANGED faults
     \/ /\ CanFail
        /\ faults' = faults + 1
        /\ tasks' = [tasks EXCEPT ![t] = Fail(@, SomethingWentWrong("teams"))]
  /\ UNCHANGED <<userCache, userCacheLock, publicChannel, teams, logs>>

\* the loop over scores is through: postMessage of text
ScoresReply(t) ==
  /\ tasks[t].pc = "sc_names"
  /\ tasks[t].i = Len(tasks[t].scores)
  /\ tasks' = [tasks EXCEPT ![t] =
        [Post(@, tasks[t].channel, tasks[t].text) EXCEPT !.pc = "done"]]
  /\ UNCHANGED <<userCache, userCacheLock, publicChannel, teams, logs, faults>>

(***************************************************************************)
(* The messages the model feeds to main.                                   *)
(***************************************************************************)
InMsg(user, channel, text) ==
  [Type |-> "message", Subtype |-> "", User |-> user, Channel |-> channel, Text |-> text]

\* a command typed in the sender's direct-message channel
Direct(user, n, words) == InMsg(user, IM(n), words)
\* a command that mentions the bot, typed in channel
Mention(user, channel, words) == InMsg(user, channel, <<BotMention, SP>> \o words)

Red   == <<"Red", SP, "Team">>
Blue  == <<"Blue">>
Wrong == <<"guess">>

StartCmd(teamName) == <<"start", SP>> \o teamName
ValidateCmd(sLevel, flag) == <<"validate", SP, sLevel, SP>> \o flag

\* U1 (alice) and U2 (bob) are teammates, U4 (dave) is on no team
Inbound ==
  {Direct("U1", "1", StartCmd(Red)),
   Mention("U2", ChanGroup, StartCmd(Blue)),
   Direct("U4", "4", StartCmd(Blue)),
   Direct("U1", "1", ValidateCmd("1", Flag1)),
   Mention("U2", ChanPublic, ValidateCmd("1", Flag1)),
   Mention("U2", ChanGroup, ValidateCmd("1", Wrong)),
   Direct("U1", "1", ValidateCmd("2", Wrong)),
   Direct("U2", "2", ValidateCmd("2", Flag3)),
   Direct("U1", "1", ValidateCmd("3", Wrong)),
   Direct("U1", "1", <<"scores">>),
   Mention("U2", ChanPublic, <<"help">>),
   Direct("U4", "4", <<"dance">>),
   [Type |-> "hello", Subtype |-> "", User |-> "", Channel |-> ChanNone, Text |-> <<>>]}

(***************************************************************************)
(* The bot started on the database an earlier run left: team 2 of carol is *)
(* registered and has found flag 1; team 1 has yet to start.               *)
(***************************************************************************)
\* main up to the receive loop, on a database that holds tm and lg; Slack
\* may be out of reach at that time, and then both calls of resolveChannel fail
Startup(tm, lg) ==
  /\ userCache = [k \in {} |-> NoUser]
  /\ userCacheLock = 0
  /\ teams = tm
  /\ logs = lg
  /\ tasks = [t \in TaskIds |-> Idle]
  /\ \E slackErr \in BOOLEAN :
       /\ faults = B2N(slackErr)
       /\ faults <= MaxFaults
       /\ publicChannel = resolveChannel(slackErr, slackErr)

Init ==
  Startup({[id |-> 2, name |-> <<"Green">>]},
          <<StartRow("carol"), LogRow("carol", <<"flag 1">>, 1, 2)>>)

Step(t) ==
  \/ DoHelp(t)
  \/ DoUnknown(t)
  \/ ResolveLock(t)
  \/ ResolveUserInfo(t)
  \/ ResolveIMChannel(t)
  \/ ResolveFailed(t)
  \/ StartSelectTeam(t)
  \/ StartSelectLog(t)
  \/ StartInsertTeam(t)
  \/ StartInsertLog(t)
  \/ StartAnnounce(t)
  \/ StartLink(t)
  \/ ValidateSelectTeam(t)
  \/ ValidateCount(t)
  \/ ValidateDup(t)
  \/ ValidateInsert(t)
  \/ ValidateAnnounce(t)
  \/ ValidateReply(t)
  \/ ScoresQuery(t)
  \/ ScoresName(t)
  \/ ScoresReply(t)

Next ==
  \/ \E m \in Inbound : Receive(m)
  \/ \E t \in TaskIds : Step(t)

Spec == Init /\ [][Next]_vars


(***************************************************************************)
(* The bot restarted while the competition is under way.  The database     *)
(* outlives the process: team 1 was registered by alice, and the team has  *)
(* spent guesses on level 2 (each row is one doValidate inserted).         *)
(***************************************************************************)
Guesses == <<"g1", "g2", "g3", "g4", "g5", "g6", "g7", "g8", "g9", "g10", "g11">>

PriorRow(i) ==
  LogRow(IF i % 2 = 1 THEN "alice" ELSE "bob", Incorrect(<<Guesses[i]>>), 2, 1)

PriorLogs(k) == <<StartRow("alice")>> \o [i \in 1..k |-> PriorRow(i)]

InitPlay ==
  \E k \in {MaxPrior - 1, MaxPrior} : Startup({[id |-> 1, name |-> Red]}, PriorLogs(k))

InboundPlay ==
  {Direct("U2", "2", ValidateCmd("1", Flag2)),
   Mention("U2", ChanGroup, ValidateCmd("1", Wrong)),
   Direct("U1", "1", ValidateCmd("2", Flag3)),
   Direct("U1", "1", ValidateCmd("2", Wrong)),
   Mention("U2", ChanGroup, ValidateCmd("2", Wrong)),
   Direct("U2", "2", ValidateCmd("2", <<"g1">>)),
   Direct("U2", "2", ValidateCmd("2", <<"flag3">>)),
   Mention("U2", ChanPublic, ValidateCmd("2", Flag3)),
   Direct("U1", "1", ValidateCmd("0", Flag1))}

StepPlay(t) ==
  \/ ResolveLock(t)
  \/ ResolveUserInfo(t)
  \/ ResolveIMChannel(t)
  \/ ResolveFailed(t)
  \/ ValidateSelectTeam(t)
  \/ ValidateCount(t)
  \/ ValidateDup(t)
  \/ ValidateInsert(t)
  \/ ValidateAnnounce(t)
  \/ ValidateReply(t)

NextPlay ==
  \/ \E m \in InboundPlay : Receive(m)
  \/ \E t \in TaskIds : StepPlay(t)

SpecPlay == InitPlay /\ [][NextPlay]_vars


(***************************************************************************)
(* The leaderboard on its own: teams 1, 2 and 666 are registered and the   *)
(* logs table holds, after their 'start' rows, any rows doValidate inserts *)
(* for them; only scores commands arrive.                                  *)
(***************************************************************************)
\* rows in the logs table after the 'start' rows
MaxLog == 3

ScoreRows ==
  <<LogRow("alice", <<"flag 1">>, 1, 1), LogRow("bob", <<"flag 2">>, 1, 1),
    LogRow("alice", Incorrect(Wrong), 1, 1),
    LogRow("carol", <<"flag 1">>, 1, 2), LogRow("carol", <<"flag 3">>, 2, 2),
    LogRow("erin", <<"flag 1">>, 1, 666)>>

ScoreTeams ==
  {[id |-> 1, name |-> Red], [id |-> 2, name |-> Blue], [id |-> 666, name |-> <<"Staff">>]}

\* up to MaxLog of these rows, any of them more than once, in the order
\* ScoreRows names them: doTopScores gathers the rows it reads in maps keyed
\* by team and event, so the order of the rows in the table is of no
\* consequence to it
ScoreLogs ==
  UNION {{<<StartRow("alice"), StartRow("carol"), StartRow("erin")>>
            \o [i \in 1..n |-> ScoreRows[f[i]]] :
            f \in {g \in [1..n -> 1..Len(ScoreRows)] :
                     \A i, j \in 1..n : i < j => g[i] <= g[j]}} : n \in 0..MaxLog}

InitScores == \E lg \in ScoreLogs : Startup(ScoreTeams, lg)

InboundScores == {Direct("U1", "1", <<"scores">>)}

NextScores ==
  \/ \E m \in InboundScores : Receive(m)
  \/ \E t \in TaskIds : ScoresQuery(t) \/ ScoresName(t) \/ ScoresReply(t)

SpecScores == InitScores /\ [][NextScores]_vars


(***************************************************************************)
(* Properties.                                                             *)
(***************************************************************************)
AllTeams == {UsersTable[n] : n \in DOMAIN UsersTable}

Username(t) == SlackUsers[tasks[t].userToken].username

\* the calls of handler h made by the members of team
CallsOf(h, team) ==
  {t \in TaskIds : tasks[t].handler = h /\ SelectUserTeam(Username(t)) = team}

Done(t) == tasks[t].pc = "done"
Succeeded(t) == Done(t) /\ tasks[t].error = <<>>
Rejected(t) == Done(t) /\ tasks[t].error # <<>>

\* the replies to a failed Slack or MySQL call
FaultErrors ==
  {SomethingWentWrong(x) :
     x \in {"GetUserInfo", "OpenIMChannel", "users", "logs", "teams", "Scan"}}

\* the 'start' rows of the members of team
StartRowsOf(team) ==
  {i \in 1..Len(logs) :
     logs[i].event = <<"start">> /\ SelectUserTeam(logs[i].user) = team}

(* C1: for every team the log holds at most one 'start' row of its members,*)
(* whatever the interleaving of the doStart calls of its members; at most  *)
(* one of these calls succeeds, a call that is rejected has appended no    *)
(* row, and once all of them have returned, none on a failed Slack or      *)
(* MySQL call, exactly one has succeeded.                                  *)
C1_OneStartPerTeam ==
  \A team \in AllTeams :
    LET calls == CallsOf("doStart", team)
        won   == {t \in calls : Succeeded(t)}
    IN /\ Cardinality(StartRowsOf(team)) <= 1
       /\ Cardinality(won) <= 1
       /\ \A t \in calls : Rejected(t) => tasks[t].insertedLogs = 0
       /\ (calls # {} /\ \A t \in calls : Done(t) /\ tasks[t].error \notin FaultErrors)
            => Cardinality(won) = 1

\* alice and bob both asked to start; one call went through, the other was
\* refused by the primary key of teams
C1_Witness ==
  \E t1, t2 \in CallsOf("doStart", 1) :
    /\ tasks[t1].userToken = "U1" /\ tasks[t2].userToken = "U2"
    /\ Succeeded(t1) \/ Succeeded(t2)
    /\ Rejected(t1) \/ Rejected(t2)
    /\ \E t \in {t1, t2} : tasks[t].error = SomethingWentWrong("Duplicate entry")
    /\ Cardinality(StartRowsOf(1)) = 1

(* C2: a row of the team registry, once there, is never changed or         *)
(* removed by any step of any command, and the registry never holds two    *)
(* names for one team.                                                     *)
C2_NameImmutable ==
  [][/\ \A r \in teams : r \in teams'
     /\ \A r1, r2 \in teams' : r1.id = r2.id => r1 = r2]_vars

\* team 1 is registered as Red Team and bob's later start Blue has returned
C2_Witness ==
  /\ [id |-> 1, name |-> Red] \in teams
  /\ \E t \in CallsOf("doStart", 1) :
       tasks[t].a1 = Blue /\ Rejected(t) /\ tasks[t].team = 1

(* C3: a doValidate call for level 2 that counts the tries of its team     *)
(* when the log holds 10 or more rows for (team, level 2) is rejected with *)
(* the 'exhausted your 10 tries' reply, whatever flag it carries, and      *)
(* leaves the log as it is; a call so rejected has inserted nothing.       *)
C3_CapRejects ==
  /\ [](\A t \in TaskIds :
          tasks[t].error = Exhausted => Done(t) /\ tasks[t].insertedLogs = 0)
  /\ [][\A t \in TaskIds :
          (/\ tasks[t].pc = "va_count"
           /\ tasks'[t] # tasks[t]
           /\ faults' = faults
           /\ tasks[t].level = 2
           /\ CountTries(logs, tasks[t].team, 2) >= RetryCap)
          => /\ logs' = logs
             /\ tasks'[t].pc = "done"
             /\ tasks'[t].error = Exhausted
             /\ tasks'[t].posted =
                  <<ErrorMessage(tasks[t].channel, Exhausted, tasks[t].userToken)>>]_vars

\* the right flag of level 2, sent when the team has used its 10 tries
C3_Witness ==
  \E t \in TaskIds :
    /\ tasks[t].handler = "doValidate" /\ tasks[t].a2 = Flag3
    /\ tasks[t].level = 2 /\ tasks[t].count >= RetryCap
    /\ Rejected(t) /\ tasks[t].error = Exhausted
    /\ tasks[t].insertedLogs = 0
    /\ CountTries(logs, tasks[t].team, 2) = tasks[t].count

\* rows of (team, level) that log the incorrect guess flag: the rows the
\* duplicate query counts, the event compared under the column's collation
IncorrectRows(lg, team, level, flag) ==
  {i \in 1..Len(lg) :
     /\ lg[i].team_id = team /\ lg[i].level = level
     /\ Collate(lg[i].event) = Collate(Incorrect(flag))}

(* C4 as stated: for every team, level and flag text the log holds at most *)
(* one 'incorrect:<flag>' row.                                             *)
C4_Original ==
  \A i, j \in 1..Len(logs) :
    (/\ i # j
     /\ logs[i].team_id # NULL
     /\ logs[i].team_id = logs[j].team_id
     /\ logs[i].level = logs[j].level
     /\ logs[i].event = logs[j].event)
    => IsFlagEvent(logs[i].event)

(* C4, amended: on level 2 a doValidate call that first reads the log when *)
(* it already holds an 'incorrect:<flag>' row of its team and level for    *)
(* the flag text it carries, the same under the collation of the column,   *)
(* inserts nothing and ends rejected (as a duplicate, or as exhausted when *)
(* the cap is reached).                                                    *)
C4_DuplicateRejected ==
  \A t \in TaskIds :
    (/\ tasks[t].handler = "doValidate"
     /\ tasks[t].level = 2
     /\ tasks[t].pc \in {"va_dup", "va_insert", "va_post", "va_reply", "done"}
     /\ \E i \in IncorrectRows(logs, tasks[t].team, 2, tasks[t].a2) :
          i <= tasks[t].snapshot)
    => /\ tasks[t].insertedLogs = 0
       /\ tasks[t].pc \in {"va_dup", "done"}
       /\ Done(t) => tasks[t].error \in {AlreadyTried, Exhausted} \cup FaultErrors

\* bob repeats alice's wrong guess for level 2 after it was logged
C4_Witness ==
  \E t \in TaskIds :
    /\ tasks[t].handler = "doValidate" /\ tasks[t].level = 2
    /\ tasks[t].a2 = Wrong /\ tasks[t].userToken = "U2"
    /\ tasks[t].error = AlreadyTried /\ tasks[t].insertedLogs = 0
    /\ \E i \in IncorrectRows(logs, 1, 2, Wrong) : logs[i].user = "alice"
    /\ Cardinality(IncorrectRows(logs, 1, 2, Wrong)) = 1

(* C5: a doValidate call made in the public channel never inserts a row    *)
(* and never gets past the check of the channel; it ends with an error     *)
(* reply, whatever its level and flag.                                     *)
C5_PublicRejected ==
  \A t \in TaskIds :
    (tasks[t].handler = "doValidate" /\ tasks[t].channel = publicChannel)
    => /\ tasks[t].insertedLogs = 0
       /\ tasks[t].pc \in {"resolve", "ru_info", "ru_im", "ru_err", "va_team", "done"}
       /\ Done(t) => tasks[t].error # <<>>

\* bob, whose team is registered, sends the right flag in the public channel
C5_Witness ==
  \E t \in TaskIds :
    /\ tasks[t].handler = "doValidate" /\ tasks[t].channel = publicChannel
    /\ tasks[t].a2 = Flag1 /\ tasks[t].a1 = <<"1">>
    /\ tasks[t].error = Shush /\ Done(t)
    /\ tasks[t].posted = <<Msg(ChanPublic, <<"<@", "U2", ">: ">> \o Shush)>>


FlagEvents ==
  {<<"flag 1">>, <<"flag 2">>, <<"flag 3">>, <<"flag 4">>, <<"flag 5">>,
   <<"flag 6">>, <<"flag 7">>}

\* the distinct flags the rows of lg record as found by team
FlagsFound(lg, team) ==
  {lg[i].event : i \in {k \in 1..Len(lg) :
                          lg[k].team_id = team /\ lg[k].event \in FlagEvents}}

TeamsInLog(lg) == {lg[i].team_id : i \in 1..Len(lg)} \ {NULL}

\* a doTopScores call whose query of the log has returned
Queried(t) ==
  /\ tasks[t].handler = "doTopScores"
  /\ \/ tasks[t].pc = "sc_names"
     \/ Done(t) /\ tasks[t].error # SomethingWentWrong("logs")

\* the log that call read
LogSeen(t) == SubSeq(logs, 1, tasks[t].snapshot)

ListedBefore(scores, a, b) ==
  \E i, j \in 1..Len(scores) :
    i < j /\ scores[i].teamID = a /\ scores[j].teamID = b

(* C6 as stated: of any two teams present in the log, the one that found   *)
(* strictly more distinct flags is listed before the other.                *)
C6_Original ==
  \A t \in TaskIds : Queried(t) =>
    \A a, b \in TeamsInLog(LogSeen(t)) :
      Cardinality(FlagsFound(LogSeen(t), a)) > Cardinality(FlagsFound(LogSeen(t), b))
      => ListedBefore(tasks[t].scores, a, b)

(* C6, amended: of any two teams with an id below 666 present in the log,  *)
(* the one that found strictly more distinct flags is listed before the    *)
(* other (teams from id 666 on are not listed at all).                     *)
C6_MoreFlagsFirst ==
  \A t \in TaskIds : Queried(t) =>
    /\ \A a, b \in {x \in TeamsInLog(LogSeen(t)) : x < HiddenFrom} :
         Cardinality(FlagsFound(LogSeen(t), a)) > Cardinality(FlagsFound(LogSeen(t), b))
         => ListedBefore(tasks[t].scores, a, b)
    /\ \A i \in 1..Len(tasks[t].scores) : tasks[t].scores[i].teamID < HiddenFrom

\* team 1 with flags 1 and 2 is listed before team 2 with flag 1
C6_Witness ==
  \E t \in TaskIds :
    /\ Queried(t) /\ Succeeded(t)
    /\ FlagsFound(LogSeen(t), 1) = {<<"flag 1">>, <<"flag 2">>}
    /\ FlagsFound(LogSeen(t), 2) = {<<"flag 1">>}
    /\ Len(tasks[t].scores) = 2
    /\ tasks[t].scores[1].teamID = 1 /\ tasks[t].scores[2].teamID = 2

(* C7 as stated: two doTopScores calls that read the same log list the     *)
(* teams in the same order.                                                *)
C7_Deterministic ==
  \A t1, t2 \in TaskIds :
    (Queried(t1) /\ Queried(t2) /\ tasks[t1].snapshot = tasks[t2].snapshot)
    => tasks[t1].scores = tasks[t2].scores

(* C8: a doStart call by a member of a team, the only start of that team,  *)
(* on a database that does not know the team, with no failed Slack or      *)
(* MySQL call: when it has returned it has succeeded, the registry holds   *)
(* (team, name), the log holds exactly one 'start' row of the team, under  *)
(* the caller's username, and the call has posted the announcement to the  *)
(* public channel and then the puzzle link to a direct-message channel of  *)
(* the caller: the channel of the command when that is one, else the       *)
(* caller's own.                                                           *)
C8_StartScenario ==
  \A t \in TaskIds :
    tasks[t].handler = "doStart" =>
      LET team == SelectUserTeam(Username(t))
          own  == SlackUsers[tasks[t].userToken].privateChannel
          dest == IF tasks[t].channel[1] = "D" THEN tasks[t].channel ELSE own
      IN (/\ Done(t)
          /\ team # NULL
          /\ CallsOf("doStart", team) = {t}
          /\ tasks[t].error \notin FaultErrors
          /\ publicChannel = ChanPublic)
         => /\ tasks[t].error = <<>>
            /\ {r \in teams : r.id = team} = {[id |-> team, name |-> tasks[t].a1]}
            /\ \E i \in 1..Len(logs) :
                 /\ StartRowsOf(team) = {i}
                 /\ logs[i].user = Username(t)
            /\ tasks[t].posted = <<Msg(ChanPublic, Entered(tasks[t].a1)),
                                   Msg(dest, LinkText)>>
            /\ dest[1] = "D"

\* bob starts team Blue from the group channel: the link goes to his own
\* direct-message channel
C8_Witness ==
  \E t \in TaskIds :
    /\ tasks[t].handler = "doStart" /\ tasks[t].userToken = "U2"
    /\ tasks[t].channel = ChanGroup /\ Succeeded(t)
    /\ [id |-> 1, name |-> Blue] \in teams
    /\ StartRowsOf(1) = {Len(logs)} /\ logs[Len(logs)] = StartRow("bob")
    /\ tasks[t].posted[2] = Msg(IM("2"), LinkText)

\* the secrets of a level, each with the name of its flag
SecretsOf(level) ==
  IF level = 1 THEN {<<Flag1, <<"flag 1">>>>, <<Flag2, <<"flag 2">>>>}
  ELSE IF level = 2 THEN {<<Flag3, <<"flag 3">>>>}
  ELSE {}

(* C9: a doValidate call by a member of a registered team, from a channel  *)
(* other than the public one, for level 1 or 2, with a flag text that is a *)
(* secret of that level, with no failed Slack or MySQL call and, on level  *)
(* 2, fewer than 10 tries counted: when it has returned it has inserted    *)
(* exactly one row, 'flag N' of the secret matched, under its username,    *)
(* level and team, and has posted 'Team <name> found flag N!' to the       *)
(* public channel and then 'Congrats, you found flag N!' to the channel of *)
(* the command.                                                            *)
C9_ValidateScenario ==
  \A t \in TaskIds :
    tasks[t].handler = "doValidate" =>
      LET lv   == Atoi(tasks[t].a1)
          mine == SelectTeamOfUser(teams, Username(t))
      IN \A s \in SecretsOf(lv.val) :
           (/\ Done(t)
            /\ ~lv.err
            /\ tasks[t].a2 = s[1]
            /\ mine # {}
            /\ publicChannel = ChanPublic
            /\ tasks[t].channel # ChanPublic
            /\ tasks[t].error \notin FaultErrors
            /\ ~(lv.val = 2 /\ tasks[t].count >= RetryCap))
           => /\ tasks[t].error = <<>>
              /\ tasks[t].insertedLogs = 1
              /\ \E r \in mine :
                   /\ \E i \in 1..Len(logs) :
                        logs[i] = LogRow(Username(t), s[2], lv.val, r.id)
                   /\ tasks[t].posted =
                        <<Msg(ChanPublic, Found(r.name, s[2])),
                          Msg(tasks[t].channel, Congrats(s[2]))>>

\* alice finds flag 3 with one of the last tries of her team
C9_Witness ==
  \E t \in TaskIds :
    /\ tasks[t].handler = "doValidate" /\ tasks[t].userToken = "U1"
    /\ tasks[t].a2 = Flag3 /\ Succeeded(t)
    /\ tasks[t].count < RetryCap
    /\ logs[Len(logs)] = LogRow("alice", <<"flag 3">>, 2, 1)
    /\ tasks[t].posted = <<Msg(ChanPublic, Found(Red, <<"flag 3">>)),
                           Msg(IM("1"), Congrats(<<"flag 3">>))>>

\* the 'has entered the competition!' messages posted by doStart calls of team
EnteredPosts(team) ==
  {p \in TaskIds \X (1..2) :
     /\ p[1] \in CallsOf("doStart", team)
     /\ p[2] <= Len(tasks[p[1]].posted)
     /\ tasks[p[1]].posted[p[2]].Text = Entered(tasks[p[1]].a1)}

\* the puzzle links posted by doStart calls of team
LinkPosts(team) ==
  {p \in TaskIds \X (1..2) :
     /\ p[1] \in CallsOf("doStart", team)
     /\ p[2] <= Len(tasks[p[1]].posted)
     /\ tasks[p[1]].posted[p[2]].Text = LinkText}

RegisteredByOther(t) ==
  /\ tasks[t].handler = "doStart"
  /\ ~tasks[t].insertedTeam
  /\ \E r \in teams : r.id = SelectUserTeam(Username(t))

(* C10: for each team the 'has entered the competition!' announcement and  *)
(* the puzzle link are each posted at most once, by the one doStart call   *)
(* that registered the team; a doStart call that did not register the team *)
(* ends rejected, having inserted no row and posted no link; and no step   *)
(* of a doStart call whose team is registered by someone else inserts a    *)
(* row or registers a team.                                                *)
C10_RegistrationOnce ==
  /\ [](\A team \in AllTeams :
          /\ Cardinality(EnteredPosts(team)) <= 1
          /\ Cardinality(LinkPosts(team)) <= 1
          /\ Cardinality({t \in CallsOf("doStart", team) : tasks[t].insertedTeam}) <= 1
          /\ \A t \in CallsOf("doStart", team) :
               (Done(t) /\ ~tasks[t].insertedTeam)
               => /\ Rejected(t)
                  /\ tasks[t].insertedLogs = 0
                  /\ Len(tasks[t].posted) = 1
                  /\ tasks[t].posted[1].Text # LinkText)
  /\ [][\A t \in TaskIds :
          (RegisteredByOther(t) /\ tasks'[t] # tasks[t])
          => /\ logs' = logs
             /\ teams' = teams
             /\ ~tasks'[t].insertedTeam
             /\ tasks'[t].pc = "done" => tasks'[t].error # <<>>]_vars

\* Red Team is registered and announced once; bob's start Blue was refused
C10_Witness ==
  /\ Cardinality(EnteredPosts(1)) = 1
  /\ Cardinality(LinkPosts(1)) = 1
  /\ \E t \in CallsOf("doStart", 1) :
       /\ tasks[t].userToken = "U2" /\ Rejected(t)
       /\ ~tasks[t].insertedTeam
       /\ tasks[t].posted =
            <<ErrorMessage(ChanGroup, SomethingWentWrong("Duplicate entry"), "U2")>>
  /\ {r \in teams : r.id = 1} = {[id |-> 1, name |-> Red]}

(* C11 as stated: a doStart call that looks for an earlier start of its    *)
(* team when the log holds a 'start' row of a member of that team is       *)
(* rejected there with 'already started', naming the user of such a row.   *)
C11_AlreadyStartedReply ==
  [][\A t \in TaskIds :
       (/\ tasks[t].handler = "doStart"
        /\ tasks[t].pc = "st_log"
        /\ tasks'[t].pc # "st_log"
        /\ faults' = faults
        /\ StartRowsOf(tasks[t].team) # {})
       => \E i \in StartRowsOf(tasks[t].team) :
            tasks'[t].error = AlreadyStarted(logs[i].user)]_vars


(***************************************************************************)
(* The level argument of validate: team 1 is registered, and the commands  *)
(* that arrive carry every shape of level text.                            *)
(***************************************************************************)
LevelTexts ==
  {"-1", "0", "1", "2", "3", "4", "100", "+2", "001", "two", "1x", "+",
   "2147483647", "9223372036854775808", "-9223372036854775809"}

InitLevels == Startup({[id |-> 1, name |-> Red]}, <<StartRow("alice")>>)

InboundLevels ==
  {Direct("U1", "1", ValidateCmd(l, Wrong)) : l \in LevelTexts}
  \cup {Mention("U2", ChanGroup, ValidateCmd("01", Flag1))}

NextLevels ==
  \/ \E m \in InboundLevels : Receive(m)
  \/ \E t \in TaskIds : StepPlay(t)

SpecLevels == InitLevels /\ [][NextLevels]_vars

\* a doValidate call that has returned and had come to the check of its
\* level: its team was found and its channel is not the public one
LevelChecked(t) ==
  /\ tasks[t].handler = "doValidate"
  /\ Done(t)
  /\ tasks[t].team # NULL
  /\ tasks[t].channel # publicChannel

(* C12: a doValidate call that comes to the check of its level is rejected *)
(* with 'is not a valid puzzle number' when the level text is no integer,  *)
(* with 'starting puzzle enumeration from 0' when it is an integer below   *)
(* 1, with 'hasn't started yet' when it is an integer above 2; the three   *)
(* replies differ, each such call has inserted no row, and a call with     *)
(* level 1 or 2 gets none of the three.                                    *)
C12_LevelRejected ==
  /\ Cardinality({NotANumber(<<"two">>), TooLow, TooHigh}) = 3
  /\ \A t \in TaskIds : LevelChecked(t) =>
       LET l == tasks[t].a1[1]
           reply == tasks[t].posted[Len(tasks[t].posted)]
       IN /\ l \in {"two", "1x", "+",
                    "9223372036854775808", "-9223372036854775809"} =>
               /\ tasks[t].error = <<l, " is not a valid puzzle number">>
               /\ reply = Msg(tasks[t].channel, tasks[t].error)
               /\ tasks[t].insertedLogs = 0 /\ Len(tasks[t].posted) = 1
          /\ l \in {"-1", "0"} =>
               /\ tasks[t].error = TooLow
               /\ reply = Msg(tasks[t].channel, TooLow)
               /\ tasks[t].insertedLogs = 0 /\ Len(tasks[t].posted) = 1
          /\ l \in {"3", "4", "100", "2147483647"} =>
               /\ tasks[t].error = TooHigh
               /\ reply = Msg(tasks[t].channel, TooHigh)
               /\ tasks[t].insertedLogs = 0 /\ Len(tasks[t].posted) = 1
          /\ l \in {"1", "2", "+2", "01", "001"} =>
               tasks[t].error \notin {NotANumber(<<l>>), TooLow, TooHigh}

\* 'validate two guess' and 'validate 3 guess' have both been turned down,
\* and the log is as it was
C12_Witness ==
  /\ \E t \in TaskIds : LevelChecked(t) /\ tasks[t].error = NotANumber(<<"two">>)
  /\ \E t \in TaskIds : LevelChecked(t) /\ tasks[t].error = TooHigh
  /\ logs = <<StartRow("alice")>>


(***************************************************************************)
(* The router on its own: every shape of message arrives, and of the       *)
(* goroutines main starts only doHelp and the 'not understood' reply run.  *)
(***************************************************************************)
RouterWords ==
  {<<>>, <<"help">>, <<"help", SP, "me">>, <<"Help">>,
   <<"start">>, <<"start", SP, "Red">>, <<"start", SP, SP, "Red", SP, "Team">>,
   <<"validate">>, <<"validate", SP, "1">>, <<"validate", SP, "1", SP, "FLAG1">>,
   <<"validate", SP, "1", SP, "a", SP, "b">>,
   <<"scores">>, <<"scores", SP, "now">>, <<"dance">>, <<"please", SP, "help">>}

InboundRouter ==
  UNION {{Direct("U1", "1", w),
          Mention("U1", ChanPublic, w),
          Mention("U1", IM("1"), w),
          InMsg("U1", ChanGroup, w),
          InMsg("U1", ChanPublic, w),
          InMsg(BotID, IM("1"), w),
          [Direct("U1", "1", w) EXCEPT !.Subtype = "message_changed"],
          [Direct("U1", "1", w) EXCEPT !.Type = "user_typing"]} : w \in RouterWords}
  \cup {InMsg("", IM("1"), <<"help">>), InMsg("U1", ChanNone, <<"help">>)}

NextRouter ==
  \/ \E m \in InboundRouter : Receive(m)
  \/ \E t \in TaskIds : DoHelp(t)
  \/ \E t \in TaskIds : DoUnknown(t)

SpecRouter == Init /\ [][NextRouter]_vars

\* a plain message the bot takes as spoken to it
Addressed(m) ==
  /\ m.Type = "message" /\ m.Subtype = ""
  /\ \/ HasPrefix(m.Text, BotMention)
     \/ HasPrefix(m.Channel, "D") /\ m.User # BotID

\* the tokens of m from its command token on
CommandTokens(m) ==
  LET toks == Fields(m.Text)
  IN IF HasPrefix(m.Text, BotMention)
     THEN SubSeq(toks, 2, Len(toks)) ELSE toks

\* the outcome C13 states for an addressed message
StatedOutcome(m) ==
  LET c == CommandTokens(m)
  IN IF c = <<<<"help">>>> THEN "doHelp"
     ELSE IF Len(c) >= 2 /\ c[1] = <<"start">> THEN "doStart"
     ELSE IF Len(c) >= 3 /\ c[1] = <<"validate">> THEN "doValidate"
     ELSE IF c = <<<<"scores">>>> THEN "doTopScores"
     ELSE "postError"

\* the same, with help and scores taken whatever follows them
LenientOutcome(m) ==
  LET c == CommandTokens(m)
  IN IF Len(c) >= 1 /\ c[1] = <<"help">> THEN "doHelp"
     ELSE IF Len(c) >= 2 /\ c[1] = <<"start">> THEN "doStart"
     ELSE IF Len(c) >= 3 /\ c[1] = <<"validate">> THEN "doValidate"
     ELSE IF Len(c) >= 1 /\ c[1] = <<"scores">> THEN "doTopScores"
     ELSE "postError"

\* the goroutines this step of main started
Started == {t \in TaskIds : tasks[t].pc = "idle" /\ tasks'[t].pc # "idle"}

(* C13 as stated: an addressed message starts exactly one handler: help    *)
(* for 'help' alone, start for 'start' and at least one argument, validate *)
(* for 'validate' and at least two, scores for 'scores' alone, and the     *)
(* 'not understood' reply for any other shape.                             *)
C13_Original ==
  [][\A m \in InboundRouter :
       (Receive(m) /\ Addressed(m))
       => /\ Cardinality(Started) = 1
          /\ \A t \in Started : tasks'[t].handler = StatedOutcome(m)]_vars

(* C13, amended: an addressed message starts exactly one handler: help     *)
(* when its command token is 'help', whatever follows; start for 'start'   *)
(* and at least one argument; validate for 'validate' and at least two;    *)
(* scores when the token is 'scores', whatever follows; the 'not           *)
(* understood' reply for any other shape.  The handler is called with the  *)
(* sender and the channel of the message.  The command token is the second *)
(* token after a mention and the first in a direct-message channel.  A     *)
(* message that is not addressed starts nothing.                           *)
C13_Router ==
  [][\A m \in InboundRouter :
       Receive(m)
       => IF Addressed(m)
          THEN /\ Cardinality(Started) = 1
               /\ \A t \in Started :
                    /\ tasks'[t].handler = LenientOutcome(m)
                    /\ tasks'[t].userToken = m.User
                    /\ tasks'[t].channel = m.Channel
          ELSE Started = {} /\ tasks' = tasks]_vars

\* 'help me' in a direct message was answered with the help text, and
\* '<@BOT> scores now' in the public channel started doTopScores
C13_Witness ==
  \E t1, t2 \in TaskIds :
    /\ tasks[t1].handler = "doHelp" /\ tasks[t1].channel = IM("1")
    /\ tasks[t1].posted = <<Msg(IM("1"), HelpText)>>
    /\ tasks[t2].handler = "doTopScores" /\ tasks[t2].channel = ChanPublic


\* task t leaves position p in this step
Leaves(t, p) == tasks[t].pc = p /\ tasks'[t].pc # p

(* C14: resolveUser.  A call that finds its user in the cache returns the  *)
(* stored record at once: no lookup is made and none fails.  A call that   *)
(* misses makes the profile lookup, then the private-channel lookup; a     *)
(* failure of either ends the handler with the error and leaves the cache  *)
(* as it was; when both succeed the record is stored under the user, who   *)
(* had no record, and returned.  No step changes or removes a stored       *)
(* record, and nothing but the second lookup of a miss adds one.           *)
C14_ResolveUser ==
  [][/\ \A k \in DOMAIN userCache :
          k \in DOMAIN userCache' /\ userCache'[k] = userCache[k]
     /\ \A t \in TaskIds :
          LET tok == tasks[t].userToken IN
          /\ Leaves(t, "resolve") =>
               IF tok \in DOMAIN userCache
               THEN /\ tasks'[t].u = userCache[tok]
                    /\ tasks'[t].pc \in {"st_team", "va_team"}
                    /\ userCache' = userCache /\ faults' = faults
               ELSE /\ tasks'[t].pc = "ru_info"
                    /\ userCache' = userCache
          /\ Leaves(t, "ru_info") =>
               /\ userCache' = userCache
               /\ tok \notin DOMAIN userCache
               /\ \/ tasks'[t].pc = "ru_im"
                  \/ tasks'[t].pc = "ru_err" /\ tasks'[t].err = "GetUserInfo"
          /\ Leaves(t, "ru_im") =>
               /\ tok \notin DOMAIN userCache
               /\ \/ /\ DOMAIN userCache' = DOMAIN userCache \cup {tok}
                     /\ userCache'[tok] = SlackUsers[tok]
                     /\ tasks'[t].u = SlackUsers[tok]
                     /\ tasks'[t].pc \in {"st_team", "va_team"}
                  \/ /\ userCache' = userCache
                     /\ tasks'[t].pc = "ru_err" /\ tasks'[t].err = "OpenIMChannel"
          /\ Leaves(t, "ru_err") =>
               /\ userCache' = userCache
               /\ tasks'[t].pc = "done"
               /\ tasks'[t].u = NoUser
               /\ tasks'[t].error = SomethingWentWrong(tasks[t].err)
               /\ tasks'[t].posted =
                    <<ErrorMessage(tasks[t].channel, tasks'[t].error, tasks[t].userToken)>>
          /\ (tasks[t].pc \notin {"ru_im"} \/ tasks'[t].pc = "ru_im")
               => (tasks'[t] # tasks[t] => userCache' = userCache)]_vars

\* alice's two commands hold the same record, looked up once: the lock is
\* held from the miss to the store, so the second call found it in the cache
C14_Witness ==
  \E t1, t2 \in TaskIds :
    /\ t1 # t2
    /\ tasks[t1].userToken = "U1" /\ tasks[t2].userToken = "U1"
    /\ tasks[t1].u = SlackUsers["U1"] /\ tasks[t2].u = SlackUsers["U1"]
    /\ DOMAIN userCache = {"U1"}
    /\ userCacheLock = 0


IsPrefix(a, b) == Len(a) <= Len(b) /\ SubSeq(b, 1, Len(a)) = a

(* C15: in every step the log after the step is the log before it, or the  *)
(* log before it with one new row at its end; and a step of main that      *)
(* starts doHelp, doTopScores or the 'not understood' reply, and every     *)
(* step of these, leaves the log and the team registry as they were.       *)
C15_AppendOnly ==
  [][/\ IsPrefix(logs, logs')
     /\ Len(logs') <= Len(logs) + 1
     /\ \A t \in TaskIds :
          (/\ tasks'[t] # tasks[t]
           /\ tasks'[t].handler \in {"doHelp", "doTopScores", "postError"})
          => logs' = logs /\ teams' = teams]_vars

\* the log grew row by row, and scores, asked after the start, has answered
\* and left log and registry as they were
C15_Witness ==
  \E t1, t2 \in TaskIds :
    /\ tasks[t1].handler = "doStart" /\ Succeeded(t1)
    /\ tasks[t2].handler = "doTopScores" /\ Succeeded(t2)
    /\ tasks[t2].snapshot = Len(logs)
    /\ logs[Len(logs)] = StartRow("alice")
    /\ {r \in teams : r.id = 1} = {[id |-> 1, name |-> Red]}


\* the texts of the messages task t has posted
TextsOf(t) == {tasks[t].posted[k].Text : k \in 1..Len(tasks[t].posted)}

\* the texts that tell of a flag found
SuccessTexts ==
  {Found(r.name, e) : r \in teams, e \in FlagEvents}
  \cup {Congrats(e) : e \in FlagEvents}

(* C16: a doValidate call inserts at most one row.  A call that has passed *)
(* every check makes the insert: either it succeeds and appends one row    *)
(* that carries the level and the team id of the call, or it fails, the    *)
(* log stays as it was and the call ends with the error reply alone.  A    *)
(* call that has posted 'found' or 'Congrats' has inserted its row, of     *)
(* that flag, before the first of them, and has sent 'Congrats' by the     *)
(* time it returns; a call that ended with an error reply has posted       *)
(* nothing else and has inserted no row; a call that ended without one has *)
(* inserted exactly one.                                                   *)
C16_OneAppend ==
  /\ [](\A t \in TaskIds : tasks[t].handler = "doValidate" =>
          /\ tasks[t].insertedLogs <= 1
          /\ TextsOf(t) \cap SuccessTexts # {} =>
               /\ tasks[t].insertedLogs = 1
               /\ \E i \in 1..Len(logs) :
                    /\ logs[i].user = Username(t)
                    /\ logs[i].event \in FlagEvents
                    /\ TextsOf(t) \cap SuccessTexts
                         \subseteq {Found(tasks[t].teamName, logs[i].event),
                                    Congrats(logs[i].event)}
                    /\ Done(t) => Congrats(logs[i].event) \in TextsOf(t)
          /\ Rejected(t) =>
               /\ tasks[t].insertedLogs = 0
               /\ tasks[t].posted =
                    <<ErrorMessage(tasks[t].channel, tasks[t].error, tasks[t].userToken)>>
          /\ Succeeded(t) => tasks[t].insertedLogs = 1)
  /\ [][\A t \in TaskIds :
          /\ (tasks[t].handler = "doValidate" /\ tasks'[t] # tasks[t]
              /\ tasks[t].pc # "va_insert") => logs' = logs
          /\ Leaves(t, "va_insert") =>
               \/ /\ Len(logs') = Len(logs) + 1
                  /\ logs'[Len(logs')].level = Atoi(tasks[t].a1).val
                  /\ logs'[Len(logs')].team_id = UsersTable[Username(t)]
                  /\ logs'[Len(logs')].user = Username(t)
                  /\ tasks'[t].insertedLogs = 1
                  /\ tasks'[t].posted = <<>>
               \/ /\ logs' = logs
                  /\ faults' = faults + 1
                  /\ tasks'[t].pc = "done"
                  /\ tasks'[t].error = SomethingWentWrong("logs")
                  /\ tasks'[t].insertedLogs = 0]_vars

\* one call found flag 2 and told of it after its insert; the insert of
\* another call on level 1 failed, and that call only said so
C16_Witness ==
  \E t1, t2 \in TaskIds :
    /\ tasks[t1].handler = "doValidate" /\ Succeeded(t1)
    /\ tasks[t1].insertedLogs = 1
    /\ Congrats(<<"flag 2">>) \in TextsOf(t1)
    /\ tasks[t2].handler = "doValidate" /\ Rejected(t2)
    /\ tasks[t2].level = 1 /\ tasks[t2].snapshot > 0
    /\ tasks[t2].error = SomethingWentWrong("logs")
    /\ TextsOf(t2) \cap SuccessTexts = {}


\* the 'ran out of tries' notices posted for team: the call and the place
\* of the notice among its messages
RanOutNotices(team) ==
  {p \in TaskIds \X (1..3) :
     /\ tasks[p[1]].handler = "doValidate"
     /\ tasks[p[1]].team = team
     /\ p[2] <= Len(tasks[p[1]].posted)
     /\ tasks[p[1]].posted[p[2]].Text = RanOut(tasks[p[1]].teamName)}

(* C17 as stated: for each team the 'ran out of tries' notice is posted at *)
(* most once, and it is posted once the calls that brought the level-2     *)
(* rows of the team to 10 with an incorrect attempt have returned.         *)
C17_RanOutOnce ==
  \A team \in AllTeams :
    /\ Cardinality(RanOutNotices(team)) <= 1
    /\ (/\ \A t \in TaskIds : tasks[t].pc \in {"idle", "done"}
        /\ CountTries(logs, team, 2) >= RetryCap
        /\ \A i \in 1..Len(logs) :
             (logs[i].team_id = team /\ logs[i].level = 2) => logs[i].event # <<"flag 3">>)
       => Cardinality(RanOutNotices(team)) = 1


\* the last message of a call, its reply to the requester
ReplyOf(t) == tasks[t].posted[Len(tasks[t].posted)]

(* C18 as stated: a doValidate call that has logged an incorrect attempt   *)
(* on level 2 replies 'Sorry, that's not right.' with 10 - (count + 1)     *)
(* tries left, a number from 0 to 9, which is 10 minus the number of       *)
(* level-2 rows of the team in the log once the call has inserted its row; *)
(* on level 1 the reply is 'Sorry, that's not right.' alone.               *)
C18_TriesLeft ==
  /\ [](\A t \in TaskIds :
          (tasks[t].handler = "doValidate" /\ Succeeded(t) /\ ~tasks[t].eventOk)
          => IF tasks[t].level = 2
             THEN /\ ReplyOf(t) = Msg(tasks[t].channel,
                       NotRight \o TriesLeft(RetryCap - (tasks[t].count + 1)))
                  /\ RetryCap - (tasks[t].count + 1) \in 0..9
             ELSE ReplyOf(t) = Msg(tasks[t].channel, NotRight))
  /\ [][\A t \in TaskIds :
          (/\ tasks[t].handler = "doValidate"
           /\ tasks[t].level = 2
           /\ tasks'[t].insertedLogs = tasks[t].insertedLogs + 1)
          => RetryCap - (tasks[t].count + 1)
               = RetryCap - CountTries(logs', tasks[t].team, 2)]_vars


(***************************************************************************)
(* The flag argument of validate: team 1 is registered, and alice submits  *)
(* the secrets, on their level and on the other, and texts close to them.  *)
(***************************************************************************)
InitFlags == Startup({[id |-> 1, name |-> Red]}, <<StartRow("alice")>>)

InboundFlags ==
  {Direct("U1", "1", ValidateCmd("1", f)) :
     f \in {Flag1, Flag2, Flag3, <<"flag1">>, <<"FLAG1", SP, "x">>}}
  \cup {Direct("U1", "1", ValidateCmd("2", f)) :
          f \in {Flag3, Flag1, <<"flag3">>, Wrong}}

NextFlags ==
  \/ \E m \in InboundFlags : Receive(m)
  \/ \E t \in TaskIds : StepPlay(t)

SpecFlags == InitFlags /\ [][NextFlags]_vars

(* C19: the row a doValidate call inserts has event 'flag N' when the flag *)
(* text of the call is equal to a secret of the level of the call, N being *)
(* the flag of that secret (level 1: Flag1 is flag 1, Flag2 is flag 2;     *)
(* level 2: Flag3 is flag 3), and 'incorrect:' followed by the text        *)
(* otherwise, a secret of the other level included.                        *)
C19_EventOfFlag ==
  [][\A t \in TaskIds :
       (/\ tasks[t].handler = "doValidate"
        /\ tasks'[t].insertedLogs = tasks[t].insertedLogs + 1)
       => LET row  == logs'[Len(logs')]
              hits == {s \in SecretsOf(Atoi(tasks[t].a1).val) : s[1] = tasks[t].a2}
          IN /\ Len(logs') = Len(logs) + 1
             /\ row.level = Atoi(tasks[t].a1).val
             /\ IF hits # {}
                THEN \A s \in hits : row.event = s[2]
                ELSE row.event = <<"incorrect:">> \o tasks[t].a2
             /\ tasks'[t].eventOk <=> hits # {}]_vars

\* FLAG3 on level 1 was logged as incorrect, FLAG3 on level 2 as flag 3
C19_Witness ==
  /\ Len(logs) = 3
  /\ {logs[2], logs[3]} =
       {LogRow("alice", <<"incorrect:", "FLAG3">>, 1, 1),
        LogRow("alice", <<"flag 3">>, 2, 1)}


\* the 'sorry, something went wrong' replies
WentWrong ==
  FaultErrors \cup {SomethingWentWrong("Duplicate entry")}

(* C20: a doStart or doValidate call that has returned has either made its *)
(* whole flow without an error reply (doStart: the team and the 'start'    *)
(* row inserted, two messages posted; doValidate: its row inserted, the    *)
(* reply posted last), or posted one error reply and nothing else.  A call *)
(* that has returned takes no further step, and every step that changes    *)
(* the log or the registry is the step of a call that has sent no error    *)
(* reply.  A 'sorry, something went wrong' reply is sent only in a step in *)
(* which a Slack or MySQL call failed (the INSERT into teams of a team     *)
(* already there included), and a doValidate call whose count query fails  *)
(* returns there, with that reply, having inserted nothing.                *)
C20_Terminal ==
  /\ [](\A t \in TaskIds : (tasks[t].handler \in {"doStart", "doValidate"} /\ Done(t)) =>
          IF tasks[t].error = <<>>
          THEN /\ tasks[t].insertedLogs = 1
               /\ \A k \in 1..Len(tasks[t].posted) :
                    tasks[t].posted[k].Text \notin WentWrong
               /\ IF tasks[t].handler = "doStart"
                  THEN tasks[t].insertedTeam /\ Len(tasks[t].posted) = 2
                  ELSE /\ Len(tasks[t].posted) \in 1..2
                       /\ ReplyOf(t).Channel = tasks[t].channel
          ELSE tasks[t].posted =
                 <<ErrorMessage(tasks[t].channel, tasks[t].error, tasks[t].userToken)>>)
  /\ [][/\ \A t \in TaskIds : Done(t) => tasks'[t] = tasks[t]
        /\ (logs' # logs \/ teams' # teams) =>
             \E t \in TaskIds :
               /\ tasks'[t] # tasks[t]
               /\ tasks[t].error = <<>> /\ tasks'[t].error = <<>>
               /\ tasks[t].posted = <<>>
        /\ \A t \in TaskIds :
             /\ (tasks'[t].error \in WentWrong /\ tasks[t].error = <<>>) =>
                  \/ faults' = faults + 1
                  \/ tasks[t].pc = "ru_err"
                  \/ /\ tasks'[t].error = SomethingWentWrong("Duplicate entry")
                     /\ tasks[t].pc = "st_insTeam"
                     /\ \E r \in teams : r.id = tasks[t].team
             /\ (tasks'[t].pc = "ru_err" /\ tasks[t].pc # "ru_err") =>
                  faults' = faults + 1
             /\ (Leaves(t, "va_count") /\ faults' = faults + 1) =>
                  /\ tasks'[t].pc = "done"
                  /\ tasks'[t].error = SomethingWentWrong("logs")
                  /\ tasks'[t].insertedLogs = 0
                  /\ logs' = logs]_vars

\* the count query of a validate call failed: the call has returned with
\* the error reply alone and the log holds the 'start' row only
C20_Witness ==
  \E t \in TaskIds :
    /\ tasks[t].handler = "doValidate" /\ Rejected(t)
    /\ tasks[t].level # NULL /\ tasks[t].snapshot = 0
    /\ tasks[t].error = SomethingWentWrong("logs")
    /\ Len(tasks[t].posted) = 1
    /\ faults = 1
    /\ logs[Len(logs)] = StartRow("alice")


(* C21 as stated: a doStart call that has returned with an error reply has *)
(* written nothing: it has inserted no row into teams and none into logs.  *)
C21_NoPartialWrite ==
  \A t \in TaskIds :
    (tasks[t].handler = "doStart" /\ Rejected(t))
    => /\ ~tasks[t].insertedTeam
       /\ tasks[t].insertedLogs = 0
       /\ (CallsOf("doStart", tasks[t].team) = {t}
           => \A r \in teams : r.id # tasks[t].team)


(***************************************************************************)
(* The bot with its goroutines scheduled fairly.  Slack and MySQL answer   *)
(* every call, but for the two lookups of resolveUser in the first         *)
(* goroutine main starts, which may stay without an answer for ever.       *)
(***************************************************************************)
\* the steps of task t that wait for no answer of Slack to resolveUser
OwnSteps(t) ==
  \/ DoHelp(t)
  \/ DoUnknown(t)
  \/ ResolveLock(t)
  \/ ResolveFailed(t)
  \/ StartSelectTeam(t)
  \/ StartSelectLog(t)
  \/ StartInsertTeam(t)
  \/ StartInsertLog(t)
  \/ StartAnnounce(t)
  \/ StartLink(t)
  \/ ValidateSelectTeam(t)
  \/ ValidateCount(t)
  \/ ValidateDup(t)
  \/ ValidateInsert(t)
  \/ ValidateAnnounce(t)
  \/ ValidateReply(t)
  \/ ScoresQuery(t)
  \/ ScoresName(t)
  \/ ScoresReply(t)

FairButFirstLookup ==
  /\ \A t \in TaskIds : WF_vars(OwnSteps(t))
  /\ \A t \in TaskIds \ {1} : WF_vars(ResolveUserInfo(t) \/ ResolveIMChannel(t))

SpecHang == Init /\ [][Next]_vars /\ FairButFirstLookup

(* C22 as stated: while the resolveUser call of one task waits in a lookup *)
(* that does not answer, every other task main has started goes on and     *)
(* returns.                                                                *)
C22_OthersComplete ==
  \A t \in TaskIds \ {1} : (tasks[t].pc # "idle") ~> Done(t)


RECURSIVE FlagCountLines(_, _, _)
\* the lines of a leaderboard that lists the teams of scores in their
\* order, each with the number of distinct flags the log lg holds for it
FlagCountLines(scores, i, lg) ==
  IF i > Len(scores) THEN <<>>
  ELSE LET id   == scores[i].teamID
           name == (CHOOSE r \in teams : r.id = id).name
       IN <<"# ", Itoa(i - 1), ": Team '">> \o name
          \o <<"' found ", Itoa(Cardinality(FlagsFound(lg, id))), " flags\n">>
          \o FlagCountLines(scores, i + 1, lg)

(* C23: the flag count doTopScores holds and prints for a listed team is   *)
(* the number of distinct 'flag N' events among the rows of that team in   *)
(* the log the call read, whatever the number of incorrect rows and of     *)
(* rows of the same flag; two calls that read the same log hold the same   *)
(* count for every team.                                                   *)
C23_FlagCount ==
  /\ \A t \in TaskIds : Queried(t) =>
       /\ \A i \in 1..Len(tasks[t].scores) :
            numFlags(tasks[t].scores[i])
              = Cardinality(FlagsFound(LogSeen(t), tasks[t].scores[i].teamID))
       /\ Succeeded(t) =>
            tasks[t].posted =
              <<Msg(tasks[t].channel, FlagCountLines(tasks[t].scores, 1, LogSeen(t)))>>
  /\ \A t1, t2 \in TaskIds :
       (Queried(t1) /\ Queried(t2) /\ LogSeen(t1) = LogSeen(t2))
       => \A i, j \in 1..Len(tasks[t1].scores) :
            tasks[t1].scores[i].teamID = tasks[t2].scores[j].teamID
            => numFlags(tasks[t1].scores[i]) = numFlags(tasks[t2].scores[j])

\* team 1 logged flag 1 twice and one incorrect guess: it is listed with
\* 1 flag
C23_Witness ==
  \E t \in TaskIds :
    /\ Queried(t) /\ Succeeded(t)
    /\ Cardinality({i \in 1..Len(logs) : logs[i] = LogRow("alice", <<"flag 1">>, 1, 1)}) = 2
    /\ \E i \in 1..Len(logs) : logs[i] = LogRow("alice", Incorrect(Wrong), 1, 1)
    /\ tasks[t].posted =
         <<Msg(IM("1"), <<"# ", "0", ": Team '", "Red", SP, "Team",
                          "' found ", "1", " flags\n">>)>>


(* C24: the list doTopScores builds holds no team twice, whatever the      *)
(* number of rows of the team in the log, and the reply has one line for   *)
(* each entry of the list.                                                 *)
C24_ListedOnce ==
  \A t \in TaskIds : Queried(t) =>
    /\ \A i, j \in 1..Len(tasks[t].scores) :
         tasks[t].scores[i].teamID = tasks[t].scores[j].teamID => i = j
    /\ {tasks[t].scores[i].teamID : i \in 1..Len(tasks[t].scores)}
         = {x \in TeamsInLog(LogSeen(t)) : x < HiddenFrom}
    /\ Succeeded(t) =>
         Cardinality({k \in 1..Len(tasks[t].posted[1].Text) :
                        tasks[t].posted[1].Text[k] = "# "}) = Len(tasks[t].scores)

\* team 1 has two rows of flag 1, team 2 one row: two lines
C24_Witness ==
  \E t \in TaskIds :
    /\ Queried(t) /\ Succeeded(t)
    /\ Cardinality(SelectTeamLogs(LogSeen(t), 1)) = 2
    /\ Cardinality(SelectTeamLogs(LogSeen(t), 2)) = 1
    /\ FlagsFound(LogSeen(t), 1) = {<<"flag 1">>}
    /\ Len(tasks[t].scores) = 2


(***************************************************************************)
(* The bot with every goroutine scheduled fairly and every call to Slack   *)
(* and MySQL answered, with a result or with an error.                     *)
(***************************************************************************)
InboundFair ==
  {Direct("U1", "1", StartCmd(Red)),
   Mention("U2", ChanGroup, StartCmd(Blue)),
   Mention("U2", ChanGroup, ValidateCmd("2", Wrong)),
   Direct("U1", "1", <<"scores">>),
   Mention("U2", ChanPublic, <<"help">>),
   Direct("U4", "4", <<"dance">>)}

NextFair ==
  \/ \E m \in InboundFair : Receive(m)
  \/ \E t \in TaskIds : Step(t)

SpecFair == Init /\ [][NextFair]_vars /\ \A t \in TaskIds : WF_vars(Step(t))

\* the channels in which the caller of task t reads: that of the command
\* and the caller's own direct-message channel
CallerChannels(t) ==
  {tasks[t].channel, SlackUsers[tasks[t].userToken].privateChannel}

(* C25: with fair scheduling and every external call answered, every task  *)
(* main has started returns, and a task that has returned has posted at    *)
(* least one message in a channel of its caller.                           *)
C25_Terminates ==
  /\ \A t \in TaskIds : (tasks[t].pc # "idle") ~> Done(t)
  /\ [](\A t \in TaskIds : Done(t) =>
          \E k \in 1..Len(tasks[t].posted) :
            tasks[t].posted[k].Channel \in CallerChannels(t))

\* bob's start from the group has returned with the link in his own
\* channel, and dave's 'dance' with the 'not understood' reply
C25_Witness ==
  \E t1, t2 \in TaskIds :
    /\ tasks[t1].handler = "doStart" /\ tasks[t1].channel = ChanGroup
    /\ Succeeded(t1)
    /\ tasks[t1].posted[2].Channel = IM("2")
    /\ tasks[t2].handler = "postError" /\ Done(t2)
    /\ tasks[t2].posted = <<Msg(IM("4"), NotUnderstood)>>


(* C26 as stated: in every reachable state the log holds at most 10 rows   *)
(* of level 2 for any team.                                                *)
C26_CapNeverExceeded ==
  \A team \in AllTeams : CountTries(logs, team, 2) <= RetryCap


(***************************************************************************)
(* Who may validate: on an empty database alice registers team 1, and      *)
(* validate commands come from her and bob (team 1), from carol (team 2,   *)
(* which nobody registers) and from dave (no row in table users).          *)
(***************************************************************************)
InboundTeams ==
  {Direct("U1", "1", StartCmd(Red)),
   Direct("U1", "1", ValidateCmd("1", Flag1)),
   Mention("U2", ChanGroup, ValidateCmd("2", Wrong)),
   Direct("U3", "3", ValidateCmd("1", Flag1)),
   Direct("U4", "4", ValidateCmd("1", Flag1))}

StepTeams(t) ==
  \/ ResolveLock(t)
  \/ ResolveUserInfo(t)
  \/ ResolveIMChannel(t)
  \/ ResolveFailed(t)
  \/ StartSelectTeam(t)
  \/ StartSelectLog(t)
  \/ StartInsertTeam(t)
  \/ StartInsertLog(t)
  \/ StartAnnounce(t)
  \/ StartLink(t)
  \/ ValidateSelectTeam(t)
  \/ ValidateCount(t)
  \/ ValidateDup(t)
  \/ ValidateInsert(t)
  \/ ValidateAnnounce(t)
  \/ ValidateReply(t)

NextTeams ==
  \/ \E m \in InboundTeams : Receive(m)
  \/ \E t \in TaskIds : StepTeams(t)

SpecTeams == Startup({}, <<>>) /\ [][NextTeams]_vars

\* the user of task t has a row in table users and the team of that row
\* has a row in table teams
TeamKnown(t) ==
  /\ Username(t) \in DOMAIN UsersTable
  /\ \E r \in teams : r.id = UsersTable[Username(t)]

(* C27: the row a doValidate call inserts carries the team id that table   *)
(* users gives for the caller, and table teams holds a row of that id when *)
(* the row is inserted; a call that looks up its team when the caller has  *)
(* no row in users, or the team of that row no row in teams, ends there    *)
(* with 'I don't know which team you are on', and such a call has inserted *)
(* nothing.                                                                *)
C27_KnownTeamOnly ==
  /\ [](\A t \in TaskIds :
          (tasks[t].handler = "doValidate" /\ tasks[t].error = DontKnowTeam)
          => /\ tasks[t].insertedLogs = 0
             /\ tasks[t].posted =
                  <<ErrorMessage(tasks[t].channel, DontKnowTeam, tasks[t].userToken)>>)
  /\ [][\A t \in TaskIds : tasks[t].handler = "doValidate" =>
          /\ (tasks'[t].insertedLogs # tasks[t].insertedLogs) =>
               /\ TeamKnown(t)
               /\ logs' = Append(logs, logs'[Len(logs')])
               /\ logs'[Len(logs')].team_id = UsersTable[Username(t)]
               /\ logs'[Len(logs')].user = Username(t)
               /\ \E r \in teams' : r.id = logs'[Len(logs')].team_id
          /\ (Leaves(t, "va_team") /\ faults' = faults /\ ~TeamKnown(t)) =>
               /\ tasks'[t].pc = "done"
               /\ tasks'[t].error = DontKnowTeam
               /\ logs' = logs]_vars

\* carol, whose team never registered, and dave, who is on no team, have
\* both been turned down, and the log is empty
C27_Witness ==
  \E t1, t2 \in TaskIds :
    /\ tasks[t1].userToken = "U3" /\ tasks[t1].error = DontKnowTeam /\ Done(t1)
    /\ tasks[t2].userToken = "U4" /\ tasks[t2].error = DontKnowTeam /\ Done(t2)
    /\ logs = <<>> /\ teams = {}


(***************************************************************************)
(* Two teams at play: teams 1 and 2 are registered, team 1 has spent       *)
(* guesses on level 2, and alice (team 1) and carol (team 2) validate on   *)
(* both levels, carol also with a guess team 1 has made and with one that  *)
(* differs from alice's and from her own in the case of its letters.       *)
(***************************************************************************)
InitTwoTeams ==
  Startup({[id |-> 1, name |-> Red], [id |-> 2, name |-> Blue]},
          PriorLogs(MaxPrior) \o <<StartRow("carol")>>)

InboundTwoTeams ==
  {Direct("U1", "1", ValidateCmd("1", Wrong)),
   Direct("U1", "1", ValidateCmd("2", Wrong)),
   Direct("U3", "3", ValidateCmd("2", Wrong)),
   Direct("U3", "3", ValidateCmd("2", <<"GUESS">>)),
   Direct("U3", "3", ValidateCmd("2", <<"g1">>)),
   Direct("U3", "3", ValidateCmd("1", Wrong))}

NextTwoTeams ==
  \/ \E m \in InboundTwoTeams : Receive(m)
  \/ \E t \in TaskIds : StepPlay(t)

SpecTwoTeams == InitTwoTeams /\ [][NextTwoTeams]_vars

\* the rows "WHERE team_id=? AND level=?" selects in lg: the events of
\* (team, level)
TriesOf(lg, team, level) ==
  {i \in 1..Len(lg) : lg[i].team_id = team /\ lg[i].level = level}

(* C28: the row a doValidate call of team T on level L inserts changes the *)
(* number of events and the set of guesses of (T, L) only: those of every  *)
(* other team, and of the other level of T, stay as they were.  A call is  *)
(* rejected as exhausted only when the log it read held 10 or more events  *)
(* of its own team on level 2, and as a duplicate only when the log holds  *)
(* a row of its own team on its own level with its guess, the same under   *)
(* the collation of the column.  The team of a row is the team of the user *)
(* who wrote it.                                                           *)
C28_Isolated ==
  /\ [](\A i \in 1..Len(logs) :
          logs[i].team_id # NULL => logs[i].team_id = SelectUserTeam(logs[i].user))
  /\ [](\A t \in TaskIds : tasks[t].handler = "doValidate" =>
          /\ tasks[t].error = Exhausted =>
               /\ tasks[t].level = 2
               /\ Cardinality(TriesOf(LogSeen(t), UsersTable[Username(t)], 2)) >= RetryCap
          /\ tasks[t].error = AlreadyTried =>
               Collate(<<"incorrect:">> \o tasks[t].a2)
                 \in {Collate(logs[i].event) :
                       i \in TriesOf(logs, UsersTable[Username(t)], tasks[t].level)}
          /\ tasks[t].snapshot > 0 =>
               tasks[t].count
                 = Cardinality(TriesOf(LogSeen(t), UsersTable[Username(t)], tasks[t].level)))
  /\ [][\A t \in TaskIds :
          (tasks[t].handler = "doValidate"
           /\ tasks'[t].insertedLogs # tasks[t].insertedLogs)
          => \A team \in AllTeams, level \in 1..LastLevel :
               (team # UsersTable[Username(t)] \/ level # tasks[t].level)
               => /\ TriesOf(logs', team, level) = TriesOf(logs, team, level)
                  /\ {logs'[i].event : i \in TriesOf(logs', team, level)}
                       = {logs[i].event : i \in TriesOf(logs, team, level)}
                  /\ CountTries(logs', team, level) = CountTries(logs, team, level)]_vars

\* carol made on level 2 a guess team 1 had made, with team 1 one try from
\* its cap, and has 9 tries left; alice's guess on level 1 took no try of
\* level 2 from team 1
C28_Witness ==
  \E t1, t2 \in TaskIds :
    /\ tasks[t1].userToken = "U3" /\ tasks[t1].a2 = <<"g1">> /\ Succeeded(t1)
    /\ ReplyOf(t1) = Msg(IM("3"), NotRight \o TriesLeft(9))
    /\ tasks[t2].userToken = "U1" /\ tasks[t2].level = 1 /\ Succeeded(t2)
    /\ Cardinality(TriesOf(logs, 1, 2)) = MaxPrior
    /\ Cardinality(TriesOf(logs, 1, 1)) = 1
    /\ Cardinality(TriesOf(logs, 2, 2)) = 1


(* C29: concurrent resolveUser calls for one identity.  The two lookups    *)
(* complete at most once per identity: the step that completes them finds  *)
(* no record of the identity in the cache and no call that returned one,   *)
(* and stores the record, which stays; at no time are two calls between    *)
(* miss and return, and the one that is holds the mutex.  Every call that  *)
(* has returned holds the stored record, so all calls for an identity      *)
(* return the same record.                                                 *)
C29_LookedUpOnce ==
  /\ [](LET LookingUp == {t \in TaskIds : tasks[t].pc \in {"ru_info", "ru_im"}}
        IN /\ Cardinality(LookingUp) <= 1
           /\ \A t \in LookingUp :
                userCacheLock = t /\ tasks[t].userToken \notin DOMAIN userCache
           /\ \A t \in TaskIds :
                tasks[t].u # NoUser =>
                  /\ tasks[t].userToken \in DOMAIN userCache
                  /\ tasks[t].u = userCache[tasks[t].userToken])
  /\ [][\A t \in TaskIds :
          (Leaves(t, "ru_im") /\ tasks'[t].pc # "ru_err")
          => /\ tasks[t].userToken \notin DOMAIN userCache
             /\ \A o \in TaskIds :
                  tasks[o].userToken = tasks[t].userToken => tasks[o].u = NoUser
             /\ tasks[t].userToken \in DOMAIN userCache'
             /\ \A o \in TaskIds \ {t} : tasks'[o].pc \notin {"ru_info", "ru_im"}]_vars

\* two commands of bob in flight at once: the start has ended, the validate
\* is still running, and both hold the one record stored for bob
C29_Witness ==
  \E t1, t2 \in TaskIds :
    /\ tasks[t1].userToken = "U2" /\ tasks[t1].handler = "doStart"
    /\ tasks[t2].userToken = "U2" /\ tasks[t2].handler = "doValidate"
    /\ tasks[t1].pc = "done" /\ tasks[t2].pc \notin {"idle", "resolve", "done"}
    /\ t1 # t2
    /\ tasks[t1].u # NoUser
    /\ tasks[t1].u = tasks[t2].u
    /\ userCache["U2"] = SlackUsers["U2"]



(***************************************************************************)
(* doValidate of src/amigo_bot.go, the revision before src/unnamed/        *)
(* part_001.  Up to the check of the level the two revisions say the same; *)
(* from the count query on, amigo_bot.go tests the error of the query with *)
(* 'err == nil' and does not return, makes no duplicate query, inserts the *)
(* row without level and team_id, and posts no 'ran out of tries' notice.  *)
(***************************************************************************)
\* SELECT COUNT(*) FROM logs WHERE team_id=? AND level=?;
\* if err == nil { postError(...) }: the query that succeeds is answered
\* with 'something went wrong (%!s(<nil>))' and the call goes on; the query
\* that fails leaves count at 0 and the call goes on as well
BotGoCount(t) ==
  /\ tasks[t].pc = "va_count"
  /\ \/ LET count == CountTries(logs, tasks[t].team, tasks[t].level)
            nil   == SomethingWentWrong("%!s(<nil>)")
        IN /\ tasks' = [tasks EXCEPT ![t] =
                 [@ EXCEPT !.count = count, !.snapshot = Len(logs),
                           !.posted = Append(@, ErrorMessage(tasks[t].channel, nil,
                                                             tasks[t].userToken)),
                           !.error = nil,
                           !.pc = "va_switch"]]
           /\ UNCHANGED faults
     \/ /\ CanFail
        /\ faults' = faults + 1
        /\ tasks' = [tasks EXCEPT ![t].count = 0, ![t].pc = "va_switch"]
  /\ UNCHANGED <<userCache, userCacheLock, publicChannel, teams, logs>>

\* the switch on the level that follows the count query: the flag of level
\* 1 compared; on level 2 'exhausted' and return when count >= 10, else the
\* flag compared
BotGoSwitch(t) ==
  /\ tasks[t].pc = "va_switch"
  /\ tasks' = [tasks EXCEPT ![t] =
        IF tasks[t].level = 1
        THEN LET ev == Level1Event(tasks[t].a2)
             IN [@ EXCEPT !.event = ev, !.eventOk = IsFlagEvent(ev), !.pc = "va_insert"]
        ELSE IF CapReached(tasks[t].count)
        THEN Fail(@, Exhausted)
        ELSE LET ev == Level2Event(tasks[t].a2)
             IN [@ EXCEPT !.event = ev, !.eventOk = IsFlagEvent(ev), !.pc = "va_insert"]]
  /\ UNCHANGED <<userCache, userCacheLock, publicChannel, teams, logs, faults>>

\* INSERT INTO logs SET user=?, event=?: level and team_id stay NULL
BotGoInsert(t) ==
  /\ tasks[t].pc = "va_insert"
  /\ \/ /\ logs' = LogsInsert(logs, LogRow(tasks[t].u.username, tasks[t].event,
                                           NULL, NULL))
        /\ tasks' = [tasks EXCEPT ![t].insertedLogs = @ + 1, ![t].pc = "va_post"]
        /\ UNCHANGED faults
     \/ /\ CanFail
        /\ faults' = faults + 1
        /\ tasks' = [tasks EXCEPT ![t] = Fail(@, SomethingWentWrong("logs"))]
        /\ UNCHANGED logs
  /\ UNCHANGED <<userCache, userCacheLock, publicChannel, teams>>

\* 'Post to public channel': 'Team <name> found flag N!' if event_ok
BotGoAnnounce(t) ==
  /\ tasks[t].pc = "va_post"
  /\ tasks' = [tasks EXCEPT ![t] =
        [(IF tasks[t].eventOk
          THEN Post(@, publicChannel, Found(tasks[t].teamName, tasks[t].event))
          ELSE @)
         EXCEPT !.pc = "va_reply"]]
  /\ UNCHANGED <<userCache, userCacheLock, publicChannel, teams, logs, faults>>

\* 'Return result': the reply, the last statement of doValidate
BotGoReply(t) ==
  /\ tasks[t].pc = "va_reply"
  /\ LET text == IF tasks[t].eventOk THEN Congrats(tasks[t].event)
                 ELSE IF tasks[t].level = 2
                 THEN NotRight \o TriesLeft(RetryCap - (tasks[t].count + 1))
                 ELSE NotRight
     IN tasks' = [tasks EXCEPT ![t] =
           [Post(@, tasks[t].channel, text) EXCEPT !.pc = "done"]]
  /\ UNCHANGED <<userCache, userCacheLock, publicChannel, teams, logs, faults>>

\* team 1 is registered, and the log holds no row of level 2 or the 10
\* rows of the cap (written with level and team_id, as part_001 does)
InitBotGo ==
  \E k \in {0, RetryCap} : Startup({[id |-> 1, name |-> Red]}, PriorLogs(k))

\* alice and bob, of team 1, validate on both levels
InboundBotGo ==
  {Direct("U1", "1", ValidateCmd("1", Flag1)),
   Direct("U1", "1", ValidateCmd("1", Wrong)),
   Mention("U2", ChanGroup, ValidateCmd("2", Wrong)),
   Direct("U2", "2", ValidateCmd("2", Flag3))}

StepBotGo(t) ==
  \/ ResolveLock(t)
  \/ ResolveUserInfo(t)
  \/ ResolveIMChannel(t)
  \/ ResolveFailed(t)
  \/ ValidateSelectTeam(t)
  \/ BotGoCount(t)
  \/ BotGoSwitch(t)
  \/ BotGoInsert(t)
  \/ BotGoAnnounce(t)
  \/ BotGoReply(t)

NextBotGo ==
  \/ \E m \in InboundBotGo : Receive(m)
  \/ \E t \in TaskIds : StepBotGo(t)

SpecBotGo == InitBotGo /\ [][NextBotGo]_vars

=============================================================================
